---- MODULE Spec2Model ----
(***************************************************************************)
(* LinguaLens (RTSlangsExplainer): cache key derivation, the IndexedDB     *)
(* explain cache (TTL + count-bounded eviction), and the quick/deep        *)
(* explain orchestration between the content overlay and the background    *)
(* router.                                                                 *)
(*                                                                         *)
(* Strings are sequences of one-character strings, so that trim,           *)
(* toLowerCase and template concatenation are computed, not assumed.       *)
(* Three specifications share the module:                                  *)
(*   SpecKey   - computeCacheKey applied to bounded inputs                 *)
(*   SpecCache - concurrent cache writes (put, trim) and reads over time   *)
(*   Spec      - overlay + router + cache, message passing in between      *)
(***************************************************************************)
EXTENDS Integers, Sequences, FiniteSets, TLC

(***************************************************************************)
(* Bounds of the model                                                     *)
(***************************************************************************)
\* longest text handed to computeCacheKey in SpecKey
MaxTextLen == 2
\* the policy's maxEntries in SpecCache and Spec (the real range 50..2000, scaled)
EntriesBudget == 2
\* cache writes started in one run of SpecCache
MaxWrites == 3

(***************************************************************************)
(* Program constants                                                       *)
(***************************************************************************)
MsPerMinute == 60000
\* cachePolicy normalizeSettings: lower clamp of quickTtlMinutes
MinQuickTtlMinutes == 5
\* DEFAULT_CACHE_SETTINGS.quickTtlMinutes
DefaultQuickTtlMinutes == 30
\* openai.ts fetchQuickExplain: const ttl = 1000 * 60 * 30
FetchTtlMs == 1800000
\* Date.now() when the run starts
StartClock == 5000000

(***************************************************************************)
(* Strings                                                                 *)
(***************************************************************************)
\* `undefined` for an optional string: a one-element sequence whose element
\* is no character of any alphabet below
Undefined == <<"<undefined>">>

\* what String.prototype.trim removes, of the characters used here
Whitespace == {" ", "\n"}

Alphabet == {"a", "A", " ", ":"}

RECURSIVE trimStart(_)
trimStart(s) ==
  IF s = <<>> THEN s
  ELSE IF Head(s) \in Whitespace THEN trimStart(Tail(s)) ELSE s

RECURSIVE trimEnd(_)
trimEnd(s) ==
  IF s = <<>> THEN s
  ELSE IF s[Len(s)] \in Whitespace THEN trimEnd(SubSeq(s, 1, Len(s) - 1)) ELSE s

\* String.prototype.trim
trim(s) == trimEnd(trimStart(s))

lowerChar(c) ==
  CASE c = "A" -> "a"
    [] c = "B" -> "b"
    [] c = "X" -> "x"
    [] c = "Y" -> "y"
    [] OTHER -> c

\* String.prototype.toLowerCase
toLowerCase(s) == [i \in 1..Len(s) |-> lowerChar(s[i])]

DefaultProfileKey == <<"d", "e", "f", "a", "u", "l", "t">>

KeySeparator == <<":", ":">>

\* utils.ts computeCacheKey without the case folding
computeCacheKey_CaseSensitive(text, profileId) ==
  (IF profileId = Undefined THEN DefaultProfileKey ELSE profileId)
    \o KeySeparator \o trim(text)

\* utils.ts: `${profileId ?? 'default'}::${text.trim().toLowerCase()}`
computeCacheKey(text, profileId) ==
  (IF profileId = Undefined THEN DefaultProfileKey ELSE profileId)
    \o KeySeparator \o toLowerCase(trim(text))

(***************************************************************************)
(* The record store (indexedDb.ts) and the cache on top of it (cache.ts)   *)
(***************************************************************************)
\* an absent optional field, a missing record, a null result
None == [none |-> TRUE]

CharCode(c) ==
  CASE c = " " -> 32
    [] c = ":" -> 58
    [] c = "a" -> 97
    [] c = "b" -> 98
    [] c = "d" -> 100
    [] c = "e" -> 101
    [] c = "f" -> 102
    [] c = "l" -> 108
    [] c = "p" -> 112
    [] c = "q" -> 113
    [] c = "t" -> 116
    [] c = "u" -> 117
    [] c = "x" -> 120
    [] c = "y" -> 121
    [] OTHER -> 0

\* IndexedDB key order of two strings: by code unit, a prefix first
RECURSIVE KeyLess(_, _)
KeyLess(a, b) ==
  IF b = <<>> THEN FALSE
  ELSE IF a = <<>> THEN TRUE
  ELSE IF CharCode(Head(a)) /= CharCode(Head(b)) THEN CharCode(Head(a)) < CharCode(Head(b))
  ELSE KeyLess(Tail(a), Tail(b))

\* position of a record in the 'updatedAt' index: by updatedAt, then by primary key
IndexBefore(r, s) ==
  \/ r.updatedAt < s.updatedAt
  \/ r.updatedAt = s.updatedAt /\ KeyLess(r.key, s.key)

\* indexedDb.ts readRecord: db.get('records', key)
readRecord(records, key) ==
  IF \E r \in records : r.key = key
  THEN CHOOSE r \in records : r.key = key
  ELSE None

\* indexedDb.ts writeRecord: db.put('records', record), keyPath 'key'
writeRecord(records, record) ==
  {r \in records : r.key /= record.key} \cup {record}

\* trimRecords walking the store in primary-key order instead of the index
trimRecords_ByKey(records, maxEntries) ==
  IF Cardinality(records) <= maxEntries THEN records
  ELSE LET toDelete == Cardinality(records) - maxEntries
       IN {r \in records :
             Cardinality({s \in records : KeyLess(s.key, r.key)}) >= toDelete}

\* trimRecords deleting one record fewer than the excess
trimRecords_OneShort(records, maxEntries) ==
  IF Cardinality(records) <= maxEntries THEN records
  ELSE LET toDelete == Cardinality(records) - maxEntries - 1
       IN {r \in records :
             Cardinality({s \in records : IndexBefore(s, r)}) >= toDelete}

\* indexedDb.ts trimRecords: one readwrite transaction; count, then delete the
\* first (count - maxEntries) records met by a cursor over the 'updatedAt' index
trimRecords(records, maxEntries) ==
  IF Cardinality(records) <= maxEntries THEN records
  ELSE LET toDelete == Cardinality(records) - maxEntries
       IN {r \in records :
             Cardinality({s \in records : IndexBefore(s, r)}) >= toDelete}

\* readQuickFromCache accepting an entry at the very millisecond it expires
readQuickFromCache_Inclusive(records, text, profileId, now) ==
  LET record == readRecord(records, computeCacheKey(text, profileId))
  IN IF record /= None /\ record.quick /= None /\ record.quick.expiresAt >= now
     THEN record.quick
     ELSE None

\* cache.ts readQuickFromCache
readQuickFromCache(records, text, profileId, now) ==
  LET record == readRecord(records, computeCacheKey(text, profileId))
  IN IF record /= None /\ record.quick /= None /\ record.quick.expiresAt > now
     THEN record.quick
     ELSE None

\* cache.ts readDeepFromCache: record?.deep ?? null
readDeepFromCache(records, text, profileId) ==
  LET record == readRecord(records, computeCacheKey(text, profileId))
  IN IF record /= None THEN record.deep ELSE None

Min(a, b) == IF a <= b THEN a ELSE b

\* adjustedExpiresAt taking the later of the two instants
adjustedExpiresAt_Max(response, settings, now) ==
  LET ttlExpiry == now + settings.quickTtlMinutes * MsPerMinute
  IN IF response.expiresAt /= 0
     THEN (IF response.expiresAt >= ttlExpiry THEN response.expiresAt ELSE ttlExpiry)
     ELSE ttlExpiry

\* cache.ts writeQuickToCache: ttlExpiry and adjustedExpiresAt (a falsy
\* response.expiresAt, here 0, takes the policy expiry)
adjustedExpiresAt(response, settings, now) ==
  LET ttlExpiry == now + settings.quickTtlMinutes * MsPerMinute
  IN IF response.expiresAt /= 0
     THEN Min(response.expiresAt, ttlExpiry)
     ELSE ttlExpiry

\* cache.ts writeQuickToCache: the record handed to writeRecord
quickRecord(text, response, profileId, settings, now) ==
  [ key |-> computeCacheKey(text, profileId),
    quick |-> [response EXCEPT !.expiresAt = adjustedExpiresAt(response, settings, now)],
    deep |-> None,
    profileId |-> profileId,
    updatedAt |-> now ]

\* cache.ts writeDeepToCache: the record handed to writeRecord
deepRecord(text, response, profileId, now) ==
  [ key |-> computeCacheKey(text, profileId),
    quick |-> None,
    deep |-> response,
    profileId |-> profileId,
    updatedAt |-> now ]

(***************************************************************************)
(* Stream decoding (router.ts: streamDeepExplain, processSseBuffer,        *)
(* handleSseEvent)                                                         *)
(***************************************************************************)
Newline == "\n"

Quote == "\""

\* the record separator '\n\n'
RecordSeparator == <<Newline, Newline>>

\* s.startsWith(prefix)
startsWith(s, prefix) ==
  Len(s) >= Len(prefix) /\ SubSeq(s, 1, Len(prefix)) = prefix

\* s.indexOf(needle) searched from position i on; positions count from 1 and
\* 0 stands for the -1 of indexOf
RECURSIVE indexFrom(_, _, _)
indexFrom(s, needle, i) ==
  IF i + Len(needle) - 1 > Len(s) THEN 0
  ELSE IF SubSeq(s, i, i + Len(needle) - 1) = needle THEN i
  ELSE indexFrom(s, needle, i + 1)

indexOf(s, needle) == indexFrom(s, needle, 1)

\* s.slice(from) with positions from 1
sliceFrom(s, from) == SubSeq(s, from, Len(s))

\* rawEvent.split('\n')
RECURSIVE splitLines(_)
splitLines(s) ==
  LET i == indexOf(s, <<Newline>>)
  IN IF i = 0 THEN <<s>>
     ELSE <<SubSeq(s, 1, i - 1)>> \o splitLines(sliceFrom(s, i + 1))

\* dataLines.join('\n')
RECURSIVE joinLines(_)
joinLines(lines) ==
  IF lines = <<>> THEN <<>>
  ELSE IF Len(lines) = 1 THEN lines[1]
  ELSE lines[1] \o <<Newline>> \o joinLines(Tail(lines))

EventPrefix == <<"e", "v", "e", "n", "t", ":">>

DataPrefix == <<"d", "a", "t", "a", ":">>

\* handleSseEvent: let eventType = 'message', overwritten by every line that
\* starts with 'event:'
RECURSIVE eventTypeOf(_, _)
eventTypeOf(lines, eventType) ==
  IF lines = <<>> THEN eventType
  ELSE eventTypeOf(Tail(lines),
         IF startsWith(Head(lines), EventPrefix)
         THEN trim(sliceFrom(Head(lines), Len(EventPrefix) + 1))
         ELSE eventType)

\* handleSseEvent: dataLines, one per line that starts with 'data:' (and not
\* with 'event:')
RECURSIVE dataLinesOf(_)
dataLinesOf(lines) ==
  IF lines = <<>> THEN <<>>
  ELSE (IF ~startsWith(Head(lines), EventPrefix) /\ startsWith(Head(lines), DataPrefix)
        THEN <<trim(sliceFrom(Head(lines), Len(DataPrefix) + 1))>>
        ELSE <<>>) \o dataLinesOf(Tail(lines))

MessageType == <<"m", "e", "s", "s", "a", "g", "e">>

CompleteType == <<"c", "o", "m", "p", "l", "e", "t", "e">>

ErrorType == <<"e", "r", "r", "o", "r">>

ReasonKey == <<"r", "e", "a", "s", "o", "n">>

Digits == <<"0", "1", "2", "3", "4", "5", "6", "7", "8", "9">>

\* JSON.parse throws a SyntaxError
JsonSyntaxError == [ok |-> FALSE]

\* the JSON texts read here are objects with no member or with one member
\* whose value is a digit or a string; insignificant spaces are skipped
RECURSIVE jsonSkipSpaces(_, _)
jsonSkipSpaces(s, inString) ==
  IF s = <<>> THEN <<>>
  ELSE IF Head(s) = Quote THEN <<Quote>> \o jsonSkipSpaces(Tail(s), ~inString)
  ELSE IF Head(s) = " " /\ ~inString THEN jsonSkipSpaces(Tail(s), inString)
  ELSE <<Head(s)>> \o jsonSkipSpaces(Tail(s), inString)

\* the value of a member: a digit, or a quoted string
jsonValue(v) ==
  IF Len(v) = 1 /\ indexOf(Digits, v) # 0
  THEN [ok |-> TRUE, value |-> [number |-> indexOf(Digits, v) - 1]]
  ELSE IF Len(v) >= 2 /\ v[1] = Quote /\ v[Len(v)] = Quote
          /\ indexOf(SubSeq(v, 2, Len(v) - 1), <<Quote>>) = 0
  THEN [ok |-> TRUE, value |-> [string |-> SubSeq(v, 2, Len(v) - 1)]]
  ELSE JsonSyntaxError

\* JSON.parse(dataRaw): {ok, members} with members a set of <<key, value>>
JsonParse(text) ==
  LET t == jsonSkipSpaces(text, FALSE)
      n == Len(t)
  IN IF n < 2 \/ t[1] # "{" \/ t[n] # "}" THEN JsonSyntaxError
     ELSE IF n = 2 THEN [ok |-> TRUE, members |-> {}]
     ELSE IF n < 6 \/ t[2] # Quote THEN JsonSyntaxError
     ELSE LET q == indexFrom(t, <<Quote>>, 3)
          IN IF q = 0 \/ q + 2 > n - 1 \/ t[q + 1] # ":" THEN JsonSyntaxError
             ELSE LET v == jsonValue(SubSeq(t, q + 2, n - 1))
                  IN IF ~v.ok THEN JsonSyntaxError
                     ELSE [ok |-> TRUE, members |-> {<<SubSeq(t, 3, q - 1), v.value>>}]

\* (parsed as {reason?: string}).reason ?? 'Deep explain streaming error'
reasonOf(members) ==
  IF \E m \in members : m[1] = ReasonKey
  THEN (CHOOSE m \in members : m[1] = ReasonKey)[2]
  ELSE [message |-> "Deep explain streaming error"]

\* the locals of one streamDeepExplain call: buffer, finalResult, the
\* messages it has handed to emitToTab, the error thrown, if any, and the
\* event types handleSseEvent has logged after parsing, in order
NewStream ==
  [buffer |-> <<>>, finalResult |-> None, emitted |-> <<>>, thrown |-> None,
   handled |-> <<>>]

\* handleSseEvent with an `error` event skipped instead of thrown
handleSseEvent_KeepsGoing(rawEvent, requestId, stream) ==
  LET lines == splitLines(rawEvent)
      eventType == eventTypeOf(lines, MessageType)
      dataRaw == joinLines(dataLinesOf(lines))
      parsed == JsonParse(dataRaw)
      logged == [stream EXCEPT !.handled = Append(@, eventType)]
  IN IF dataRaw = <<>> THEN stream
     ELSE IF ~parsed.ok THEN [stream EXCEPT !.thrown = [message |-> "SyntaxError"]]
     ELSE IF eventType = CompleteType
     THEN [logged EXCEPT !.finalResult = [members |-> parsed.members]]
     ELSE IF eventType = ErrorType THEN logged
     ELSE [logged EXCEPT !.emitted = Append(@,
             [type |-> "DEEP_EXPLAIN_PROGRESS",
              payload |-> [members |-> parsed.members, requestId |-> requestId]])]

\* handleSseEvent
handleSseEvent(rawEvent, requestId, stream) ==
  LET lines == splitLines(rawEvent)
      eventType == eventTypeOf(lines, MessageType)
      dataRaw == joinLines(dataLinesOf(lines))
      parsed == JsonParse(dataRaw)
      logged == [stream EXCEPT !.handled = Append(@, eventType)]
  IN IF dataRaw = <<>> THEN stream
     ELSE IF ~parsed.ok THEN [stream EXCEPT !.thrown = [message |-> "SyntaxError"]]
     ELSE IF eventType = CompleteType
     THEN [logged EXCEPT !.finalResult = [members |-> parsed.members]]
     ELSE IF eventType = ErrorType THEN [logged EXCEPT !.thrown = reasonOf(parsed.members)]
     ELSE [logged EXCEPT !.emitted = Append(@,
             [type |-> "DEEP_EXPLAIN_PROGRESS",
              payload |-> [members |-> parsed.members, requestId |-> requestId]])]

\* processSseBuffer: every record that is complete in the buffer is handled,
\* the rest is kept; an exception of handleSseEvent ends the loop
RECURSIVE processSseBuffer(_, _)
processSseBuffer(requestId, stream) ==
  LET separatorIndex == indexOf(stream.buffer, RecordSeparator)
  IN IF stream.thrown # None \/ separatorIndex = 0 THEN stream
     ELSE LET rawEvent == trim(SubSeq(stream.buffer, 1, separatorIndex - 1))
              rest == [stream EXCEPT !.buffer = sliceFrom(@, separatorIndex + Len(RecordSeparator))]
          IN processSseBuffer(requestId,
               IF rawEvent # <<>> THEN handleSseEvent(rawEvent, requestId, rest) ELSE rest)

\* streamDeepExplain, the body of the read loop for one chunk
readChunk(chunk, requestId, stream) ==
  processSseBuffer(requestId, [stream EXCEPT !.buffer = @ \o chunk])

\* streamDeepExplain after the loop, with an incomplete stream let through
endOfStream_Lenient(requestId, stream) ==
  [stream EXCEPT !.emitted = Append(@, [type |-> "DEEP_EXPLAIN_READY",
                                        payload |-> stream.finalResult])]

\* streamDeepExplain after the loop: throw without finalResult, otherwise
\* emit DEEP_EXPLAIN_READY and return finalResult
endOfStream(requestId, stream) ==
  IF stream.finalResult = None
  THEN [stream EXCEPT !.thrown =
          [message |-> "Deep explain stream ended without completion event"]]
  ELSE [stream EXCEPT !.emitted = Append(@, [type |-> "DEEP_EXPLAIN_READY",
                                             payload |-> stream.finalResult])]

\* processDeepExplain, the catch: emitFailure(tabId, requestId, mode, reason)
emitFailure(requestId, mode, stream) ==
  [stream EXCEPT !.emitted = Append(@, [type |-> "REQUEST_FAILED",
          payload |-> [requestId |-> requestId, mode |-> mode, reason |-> stream.thrown]])]

(***************************************************************************)
(* Subtitle detector (content/subtitleDetector.ts)                         *)
(***************************************************************************)
\* String.prototype.replace(/\s+/g, ' '): every run of whitespace becomes
\* one space
RECURSIVE collapseWhitespace(_)
collapseWhitespace(s) ==
  IF s = <<>> THEN <<>>
  ELSE IF Head(s) \in Whitespace
       THEN <<" ">> \o collapseWhitespace(trimStart(s))
       ELSE <<Head(s)>> \o collapseWhitespace(Tail(s))

\* scanDom, tryAriaLiveFallback, extractCueText:
\* text.replace(/\s+/g, ' ').trim()
normalizeText(text) == trim(collapseWhitespace(text))

\* MIN_DOM_SCORE = 1.6; scores are counted in tenths
MinDomScore == 16

\* `this.domMisses > 3`
ForceMisses == 3

\* result.confidence > 60
MinConfidence == 60

\* the one listener the overlay registers with onSubtitle
OverlayListener == "handleObservation"

\* the tiers of a scan pass, in the order of scanDom
Tiers == <<"structural", "textTrack", "ariaLive", "optical">>

\* what a page holds for the three synchronous tiers: a candidate of at
\* least MIN_DOM_SCORE, an active cue with text, a live region with text
tierOffers(page) ==
  [ structural |-> \E i \in DOMAIN page.elements :
                     /\ normalizeText(page.elements[i].innerText) # <<>>
                     /\ page.elements[i].score >= MinDomScore,
    textTrack |-> normalizeText(page.cueText) # <<>>,
    ariaLive |-> normalizeText(page.liveText) # <<>> ]

\* no pass has run
NoPass ==
  [ hit |-> FALSE, force |-> FALSE, recognized |-> FALSE, source |-> "none",
    offered |-> [structural |-> FALSE, textTrack |-> FALSE, ariaLive |-> FALSE] ]

\* a SubtitleDetector after construction, with no timer pending, no
\* recognition running and nothing heard by a listener
NewDetector ==
  [ listeners |-> {},
    \* this.observer: "none", "observing" or "disconnected"
    observer |-> "none",
    lastSubtitle |-> <<>>,
    ocrCooldown |-> FALSE,
    domMisses |-> 0,
    \* window.location.hostname matches OCR_PREFERRED_HOSTS
    preferredHost |-> FALSE,
    \* the timeout of debounce is pending
    debounceTimeout |-> FALSE,
    \* the runOcr calls that have not returned, each with the `force` of its
    \* scheduleOcrFallback
    recognitions |-> <<>>,
    \* the cooldown timeouts that are pending
    cooldownTimeouts |-> 0,
    \* the texts the listener was called with
    heard |-> <<>>,
    \* how the last call of emit ended: "none" before the first call, then
    \* "empty", "duplicate" or "fired"
    lastEmit |-> "none",
    \* stop() has returned
    stopped |-> FALSE,
    \* scanDom passes run, runOcr calls started, timeouts fired
    scanPasses |-> 0,
    recognitionsStarted |-> 0,
    timeoutsFired |-> 0,
    \* how the last `await runOcr` ended: "none", "threw" or "returned"
    lastOcr |-> "none",
    \* the last scanDom pass: whether a tier found a text, the argument of
    \* its scheduleOcrFallback call, the tier whose text went to emit, and
    \* what the page held for each tier
    lastPass |-> NoPass ]

\* emit with no comparison against the last emitted text
emit_NoDedup(d, text) ==
  IF text = <<>>
  THEN [d EXCEPT !.lastEmit = "empty"]
  ELSE [d EXCEPT !.lastSubtitle = text,
                 !.lastEmit = IF text = d.lastSubtitle THEN "duplicate" ELSE "fired",
                 !.heard = IF d.listeners # {} THEN Append(@, text) ELSE @]

\* emit: nothing for an empty text or the text emitted last; otherwise the
\* text is remembered and every listener is called
emit(d, text) ==
  IF text = <<>> \/ text = d.lastSubtitle
  THEN [d EXCEPT !.lastEmit = IF text = <<>> THEN "empty" ELSE "duplicate"]
  ELSE [d EXCEPT !.lastSubtitle = text,
                 !.lastEmit = "fired",
                 !.heard = IF d.listeners # {} THEN Append(@, text) ELSE @]

\* scanDom, the loops over the selectors: the visible elements with a
\* non-empty normalized text and a score above zero, in document order
RECURSIVE candidatesOf(_)
candidatesOf(elements) ==
  IF elements = <<>> THEN <<>>
  ELSE LET element == Head(elements)
           text == normalizeText(element.innerText)
       IN IF text # <<>> /\ element.score > 0
          THEN <<[text |-> text, score |-> element.score]>> \o candidatesOf(Tail(elements))
          ELSE candidatesOf(Tail(elements))

\* candidates.sort((a, b) => b.score - a.score)[0]: the first candidate of
\* the highest score (the sort is stable)
bestOf(candidates) ==
  LET top == CHOOSE i \in DOMAIN candidates :
               /\ \A j \in DOMAIN candidates : candidates[j].score <= candidates[i].score
               /\ \A j \in 1..(i - 1) : candidates[j].score < candidates[i].score
  IN candidates[top]

\* scheduleOcrFallback up to its first await: dropped during the cooldown
\* unless forced; without a canvas the finally block starts the cooldown
\* timeout at once, with one runOcr is called
scheduleOcrFallback(d, force, canvas) ==
  IF d.ocrCooldown /\ ~force
  THEN d
  ELSE IF ~canvas
  THEN [d EXCEPT !.ocrCooldown = TRUE, !.cooldownTimeouts = @ + 1]
  ELSE [d EXCEPT !.ocrCooldown = TRUE,
                 !.recognitions = Append(@, [force |-> force]),
                 !.recognitionsStarted = @ + 1,
                 !.lastPass.recognized = TRUE]

\* scanDom with the live regions asked before the text track
scanDom_LiveFirst(d, page) ==
  LET candidates == candidatesOf(page.elements)
      hasCandidate == candidates # <<>>
      passed == [d EXCEPT !.scanPasses = @ + 1,
                          !.lastPass = [NoPass EXCEPT !.offered = tierOffers(page)]]
      found(tier) == [passed EXCEPT !.domMisses = 0, !.lastPass.hit = TRUE,
                                    !.lastPass.source = Tiers[tier]]
      missed == [passed EXCEPT !.domMisses = @ + 1]
      textTrack == normalizeText(page.cueText)
      ariaLive == normalizeText(page.liveText)
      force == \/ missed.domMisses > ForceMisses
               \/ d.preferredHost
               \/ hasCandidate
  IN IF hasCandidate /\ bestOf(candidates).score >= MinDomScore
     THEN emit(found(1), bestOf(candidates).text)
     ELSE IF ariaLive # <<>>
     THEN emit(found(3), ariaLive)
     ELSE IF textTrack # <<>>
     THEN emit(found(2), textTrack)
     ELSE scheduleOcrFallback([missed EXCEPT !.lastPass.force = force], force, page.canvas)

\* scanDom on a page: the best structural candidate if it reaches
\* MIN_DOM_SCORE, else the text track, else the live regions, else
\* scheduleOcrFallback
scanDom(d, page) ==
  LET candidates == candidatesOf(page.elements)
      hasCandidate == candidates # <<>>
      passed == [d EXCEPT !.scanPasses = @ + 1,
                          !.lastPass = [NoPass EXCEPT !.offered = tierOffers(page)]]
      found(tier) == [passed EXCEPT !.domMisses = 0, !.lastPass.hit = TRUE,
                                    !.lastPass.source = Tiers[tier]]
      missed == [passed EXCEPT !.domMisses = @ + 1]
      textTrack == normalizeText(page.cueText)
      ariaLive == normalizeText(page.liveText)
      force == \/ missed.domMisses > ForceMisses
               \/ d.preferredHost
               \/ hasCandidate
  IN IF hasCandidate /\ bestOf(candidates).score >= MinDomScore
     THEN emit(found(1), bestOf(candidates).text)
     ELSE IF textTrack # <<>>
     THEN emit(found(2), textTrack)
     ELSE IF ariaLive # <<>>
     THEN emit(found(3), ariaLive)
     ELSE scheduleOcrFallback([missed EXCEPT !.lastPass.force = force], force, page.canvas)

\* the finally block left out when runOcr rejects
ocrReturns_NoFinally(d, k, result) ==
  LET rest == [d EXCEPT !.recognitions = SubSeq(@, 1, k - 1) \o SubSeq(@, k + 1, Len(@)),
                        !.cooldownTimeouts = IF result.threw THEN @ ELSE @ + 1,
                        !.lastOcr = IF result.threw THEN "threw" ELSE "returned"]
      text == trim(result.text)
  IN IF ~result.threw /\ text # <<>> /\ result.confidence > MinConfidence
     THEN emit(rest, text)
     ELSE rest

\* scheduleOcrFallback after `await runOcr(canvas)`: a text of enough
\* confidence is emitted, a rejection is caught, and the finally block starts
\* the cooldown timeout
ocrReturns(d, k, result) ==
  LET rest == [d EXCEPT !.recognitions = SubSeq(@, 1, k - 1) \o SubSeq(@, k + 1, Len(@)),
                        !.cooldownTimeouts = @ + 1,
                        !.lastOcr = IF result.threw THEN "threw" ELSE "returned"]
      \* runOcr: text.trim()
      text == trim(result.text)
  IN IF ~result.threw /\ text # <<>> /\ result.confidence > MinConfidence
     THEN emit(rest, text)
     ELSE rest

(***************************************************************************)
(* Cache policy (background/cachePolicy.ts)                                *)
(***************************************************************************)
\* normalizeSettings: upper clamp of quickTtlMinutes
MaxQuickTtlMinutes == 180
\* normalizeSettings: the clamps of maxEntries
MinMaxEntries == 50
MaxMaxEntries == 2000
\* DEFAULT_CACHE_SETTINGS.maxEntries
DefaultMaxEntries == 400

\* numbers of the stored settings are counted in halves, so that 5.5 and
\* 49.5 can be stored: Whole(n) is the number n
Whole(n) == 2 * n

Max(a, b) == IF a >= b THEN a ELSE b

\* Math.floor on a number counted in halves
floor(halves) == (halves \div 2) * 2

\* DEFAULT_CACHE_SETTINGS
DefaultCacheSettings ==
  [quickTtlMinutes |-> Whole(DefaultQuickTtlMinutes), maxEntries |-> Whole(DefaultMaxEntries)]

\* Number.isFinite(value) && (value ?? 0) > 0 on a stored value: a number, a
\* string, NaN, Infinity or nothing
isPositiveFinite(value) == value.kind = "number" /\ value.halves > 0

\* normalizeSettings without the clamps
normalizeSettings_NoClamp(raw) ==
  IF raw.kind = "undefined"
  THEN DefaultCacheSettings
  ELSE [quickTtlMinutes |->
          IF isPositiveFinite(raw.quickTtlMinutes)
          THEN raw.quickTtlMinutes.halves
          ELSE DefaultCacheSettings.quickTtlMinutes,
        maxEntries |->
          IF isPositiveFinite(raw.maxEntries)
          THEN floor(raw.maxEntries.halves)
          ELSE DefaultCacheSettings.maxEntries]

\* normalizeSettings: the defaults, with each field that is a finite
\* positive number clamped into its range
normalizeSettings(raw) ==
  IF raw.kind = "undefined"
  THEN DefaultCacheSettings
  ELSE [quickTtlMinutes |->
          IF isPositiveFinite(raw.quickTtlMinutes)
          THEN Min(Max(raw.quickTtlMinutes.halves, Whole(MinQuickTtlMinutes)),
                   Whole(MaxQuickTtlMinutes))
          ELSE DefaultCacheSettings.quickTtlMinutes,
        maxEntries |->
          IF isPositiveFinite(raw.maxEntries)
          THEN Min(Max(floor(raw.maxEntries.halves), Whole(MinMaxEntries)),
                   Whole(MaxMaxEntries))
          ELSE DefaultCacheSettings.maxEntries]

\* nothing is stored under CACHE_SETTINGS_KEY
NothingStored == [kind |-> "undefined"]

\* cachePolicy.ts when the service worker starts: the module variables, what
\* chrome.storage.local holds, and what getCacheSettings gave its callers
NewCachePolicy ==
  [ stored |-> NothingStored,
    cachedSettings |-> DefaultCacheSettings,
    \* the raw value cachedSettings was normalized from
    cachedFrom |-> NothingStored,
    hasLoaded |-> FALSE,
    \* loadingPromise: "null", or the raw value its chrome.storage get reads
    loadingPromise |-> [kind |-> "null"],
    listenerRegistered |-> FALSE,
    \* the settings the last getCacheSettings call resolved with, and the
    \* raw value they were normalized from
    returned |-> [kind |-> "none"],
    \* getCacheSettings calls awaiting loadingPromise
    waiting |-> 0,
    \* the parity of the getCacheSettings calls answered from the cache
    calls |-> 0 ]

(***************************************************************************)
(* Storage (shared/storage.ts)                                             *)
(***************************************************************************)
\* the storage areas storageSet writes to
StorageAreaNames == {"sync", "local"}

\* what an area holds under the keys of `items`
NoItems == "none"

\* chrome.storage with both areas empty, and no storageSet call made
NewChromeStorage ==
  [ sync |-> NoItems,
    local |-> NoItems,
    \* hasSyncStorage()
    hasSync |-> TRUE,
    \* the arguments of the storageSet call
    items |-> NoItems,
    preferSync |-> TRUE,
    \* the area whose set callback is outstanding, or "none"
    pending |-> "none",
    \* the areas setInArea was called with
    tried |-> <<>>,
    \* the value the promise resolved with, or "none"
    resolved |-> "none",
    \* the areas the call has written the items to
    written |-> {},
    \* what the storageGet call made since has returned
    got |-> [kind |-> "none"] ]

\* resolve(area): the first call settles the promise
resolve(st, area) ==
  [st EXCEPT !.pending = "none",
             !.resolved = IF @ = "none" THEN area ELSE @]

\* setInArea(area); throws[a] says whether chrome.storage[a].set throws
RECURSIVE setInArea(_, _, _)
setInArea(st, area, throws) ==
  LET called == [st EXCEPT !.tried = Append(@, area)]
  IN IF throws[area]
     THEN IF area = "sync"
          THEN setInArea(called, "local", throws)
          ELSE resolve(called, "local")
     ELSE [called EXCEPT !.pending = area]

\* storageSet(items, preferSync), up to the return of the promise
storageSet(st, items, preferSync, throws) ==
  LET call == [st EXCEPT !.items = items,
                         !.preferSync = preferSync,
                         !.pending = "none",
                         !.tried = <<>>,
                         !.resolved = "none",
                         !.written = {},
                         !.got = [kind |-> "none"]]
  IN IF preferSync /\ st.hasSync
     THEN setInArea(call, "sync", throws)
     ELSE setInArea(call, "local", throws)

\* the callback of chrome.storage[area].set: with lastError set nothing
\* was written
setCallback(st, lastError, throws) ==
  LET area == st.pending
  IN IF lastError
     THEN IF area = "sync"
          THEN setInArea([st EXCEPT !.pending = "none"], "local", throws)
          ELSE resolve(st, "local")
     ELSE resolve([st EXCEPT ![area] = st.items, !.written = @ \cup {area}], area)

\* safeStorageGet(area, keys): null when chrome.storage[area].get throws or
\* its callback runs with lastError set, otherwise what the area holds
safeStorageGet(st, area, fails) ==
  IF fails[area] THEN [kind |-> "null"]
  ELSE [kind |-> "result", data |-> st[area], area |-> area]

\* storageGet(keys, preferSync): the sync area is asked first, the local area
\* only when that get failed, and {} is returned when both failed
storageGet(st, preferSync, fails) ==
  LET fromSync == IF preferSync /\ st.hasSync
                  THEN safeStorageGet(st, "sync", fails)
                  ELSE [kind |-> "null"]
      fromLocal == IF fromSync.kind = "null"
                   THEN safeStorageGet(st, "local", fails)
                   ELSE fromSync
  IN IF fromLocal.kind = "null"
     THEN [kind |-> "result", data |-> NoItems, area |-> "local"]
     ELSE fromLocal

(***************************************************************************)
(* Background listener (background/index.ts, handleBackgroundMessage)      *)
(***************************************************************************)
\* the message types handleBackgroundMessage has a case for
CommandTypes ==
  {"EXPLAIN_REQUEST", "STORE_API_KEYS", "FETCH_PROFILES", "UPSERT_PROFILE",
   "DELETE_PROFILE"}

\* a promise fulfilled with a value
fulfilled(value) == [state |-> "fulfilled", value |-> value]

\* a promise rejected with a thrown value: an Error with a message, or
\* something else, which String() turns into text
rejected(isError, text) ==
  [state |-> "rejected", reason |-> [isError |-> isError, text |-> text]]

\* what processQuickExplain, processDeepExplain, saveApiKeys, fetchProfiles,
\* upsertProfile and deleteProfile can settle with
Settlements(message) ==
  CASE message.type = "EXPLAIN_REQUEST" /\ message.mode = "quick" ->
         { fulfilled([ok |-> TRUE, cached |-> TRUE, response |-> "quick"]),
           fulfilled([ok |-> TRUE, cached |-> FALSE, response |-> "quick"]),
           fulfilled([ok |-> FALSE, error |-> "Missing OpenAI API key"]),
           rejected(TRUE, "storage error") }
    [] message.type = "EXPLAIN_REQUEST" /\ message.mode = "deep" ->
         { fulfilled([ok |-> FALSE]),
           fulfilled([ok |-> TRUE, cached |-> TRUE]),
           fulfilled([ok |-> FALSE, error |-> "Deep explain failed"]),
           rejected(TRUE, "storage error") }
    [] message.type = "STORE_API_KEYS" ->
         { fulfilled([saved |-> TRUE]), rejected(FALSE, "quota") }
    [] message.type = "FETCH_PROFILES" ->
         { fulfilled([profiles |-> <<>>]),
           rejected(TRUE, "Failed to fetch profiles") }
    [] message.type = "UPSERT_PROFILE" ->
         { fulfilled([id |-> "profile"]),
           rejected(TRUE, "Failed to upsert profile") }
    [] message.type = "DELETE_PROFILE" ->
         { fulfilled([ok |-> TRUE]),
           rejected(TRUE, "Failed to delete profile") }
    [] OTHER -> {}

\* handleBackgroundMessage(message): the promise it returns, given what the
\* function called for the message type settled with
handleBackgroundMessage(message, inner) ==
  CASE message.type = "EXPLAIN_REQUEST" /\ message.mode = "none" ->
         \* message.payload.mode of a message without payload
         rejected(TRUE, "TypeError")
    [] message.type = "STORE_API_KEYS" ->
         IF inner.state = "fulfilled"
         THEN fulfilled([ok |-> TRUE])
         ELSE inner
    [] message.type \in CommandTypes -> inner
    [] OTHER -> fulfilled([ok |-> FALSE])

\* the listener's catch without the sendResponse call
listenerResponses_NoCatch(promise) ==
  IF promise.state = "fulfilled"
  THEN <<promise.value>>
  ELSE <<>>

\* the sendResponse calls of the listener once the promise has settled:
\* then((result) => sendResponse(result)), catch((error) => sendResponse(
\* {ok: false, error: error instanceof Error ? error.message : String(error)}))
listenerResponses(promise) ==
  IF promise.state = "fulfilled"
  THEN <<promise.value>>
  ELSE <<[ok |-> FALSE, error |-> promise.reason.text]>>

(***************************************************************************)
(* Deep data of the drawer (content/index.tsx, handleSseEvent)             *)
(***************************************************************************)
\* a DeepExplainResponse field that is not there yet
NoBody == "<undefined>"

\* the fields of a DeepExplainResponse the drawer renders
DeepFields == {"requestId", "background", "crossCulture", "sources"}

\* {}: an object with none of the fields; deepData === undefined is read as
\* {} wherever it is merged (prev ?? {})
EmptyObject == [f \in DeepFields |-> NoBody]

\* {...prev, ...payload}: the fields payload has replace those of prev
spread(prev, payload) ==
  [f \in DeepFields |-> IF payload[f] # NoBody THEN payload[f] ELSE prev[f]]

\* the merge replaced by an assignment of the payload
mergeDeepProgress_Replace(prev, payload) == payload

\* setDeepData((prev) => ({...(prev ?? {}), ...message.payload}))
mergeDeepProgress(prev, payload) == spread(prev, payload)

\* {requestId}
onlyRequestId(requestId) == [EmptyObject EXCEPT !["requestId"] = requestId]

\* handleSseEvent: progressPayload = {...parsed, requestId}
progressPayload(parsed, requestId) == spread(parsed, onlyRequestId(requestId))

\* the overlay before the first subtitle line is explained, and a router
\* with no deep request
NewDrawer ==
  [ lastRequestId |-> NoBody,
    deepData |-> EmptyObject,
    deepLoading |-> FALSE,
    idsCreated |-> 0,
    \* the deep requests the router is serving
    streams |-> <<>>,
    \* chrome.tabs.sendMessage notifications on their way to the overlay
    inbox |-> <<>>,
    \* deep requests sent for lastRequestId
    deepRequests |-> 0,
    \* the progress payloads of the latest deep request handleMessage let in
    accepted |-> <<>>,
    \* the last notification handleMessage let in since the last click
    lastHandled |-> [type |-> "none"] ]

(***************************************************************************)
(* debounce (shared/utils.ts) as the detector uses it                      *)
(***************************************************************************)
\* debounce(() => this.scanDom(), 150): the delay in milliseconds
DebounceMs == 150

\* the closure of one debounce call and the timeouts of the window: timeout is
\* the handle of the closure (0: undefined), timers the timeouts not yet run
\* or cleared, now the time in milliseconds; calledAt holds, for each burst
\* of calls, the time of its latest call and ranAt the times at which fn ran
NewDebouncer ==
  [ now |-> 0, timeout |-> 0, timers |-> {}, handles |-> 0,
    calledAt |-> <<>>, ranAt |-> <<>> ]

\* window.setTimeout(() => fn(...args), delay): a new handle
setTimeout(st, delay) ==
  [st EXCEPT !.handles = @ + 1,
             !.timers = @ \cup {[handle |-> st.handles + 1, due |-> st.now + delay]}]

\* window.clearTimeout(handle)
clearTimeout(st, handle) ==
  [st EXCEPT !.timers = {t \in @ : t.handle # handle}]

\* the function debounce returns, without the clearTimeout
debounced_NoClear(st, delay) ==
  LET timed == setTimeout(st, delay)
  IN [timed EXCEPT !.timeout = timed.handles]

\* the function debounce returns: clearTimeout(timeout); timeout = setTimeout(...)
debounced(st, delay) ==
  LET timed == setTimeout(clearTimeout(st, st.timeout), delay)
  IN [timed EXCEPT !.timeout = timed.handles]

(***************************************************************************)
(* The quick completion (shared/openai.ts, router.ts: processQuickExplain) *)
(***************************************************************************)
LiteralKey == <<"l", "i", "t", "e", "r", "a", "l">>

ContextKey == <<"c", "o", "n", "t", "e", "x", "t">>

\* typeof parsed[key] === 'string' ? parsed[key] : ''
stringMember(parsed, key) ==
  IF \E m \in parsed.members : m[1] = key /\ "string" \in DOMAIN m[2]
  THEN (CHOOSE m \in parsed.members : m[1] = key)[2].string
  ELSE <<>>

\* const [firstLine, ...rest] = responseText.split('\n');
\* [firstLine ?? '', rest.join('\n').trim()]
splitResponse(responseText) ==
  LET textLines == splitLines(responseText)
  IN <<Head(textLines), trim(joinLines(Tail(textLines)))>>

\* parseQuickResponse: the two fields of the JSON text when one of them is a
\* string that is not empty; otherwise, and when JSON.parse throws, the first
\* line of the text and the trimmed rest
parseQuickResponse(responseText) ==
  LET parsedJson == JsonParse(responseText)
  IN IF parsedJson.ok
     THEN LET literalField == stringMember(parsedJson, LiteralKey)
              contextField == stringMember(parsedJson, ContextKey)
          IN IF literalField # <<>> \/ contextField # <<>>
             THEN <<literalField, contextField>>
             ELSE splitResponse(responseText)
     ELSE splitResponse(responseText)

\* the message of the error thrown when both fields are empty
\* ('模型未返回有效的解释内容')
EmptyResultMessage == "no valid explanation returned"

\* the message of the error thrown when the response is not ok
RequestFailedMessage == "OpenAI request failed"

\* fetchQuickExplain from extractOutputText on: the response, or the error
fetchQuickExplain(rawOutput) ==
  LET fields == parseQuickResponse(rawOutput)
  IN IF fields[1] = <<>> /\ fields[2] = <<>>
     THEN [threw |-> TRUE, message |-> EmptyResultMessage]
     ELSE [threw |-> FALSE, literal |-> fields[1], context |-> fields[2]]

\* one processQuickExplain after another: the text the model returned to the
\* call in progress, what fetchQuickExplain made of it, the responses
\* written to the cache and the value returned to the sender
NewQuickCall ==
  [ phase |-> "idle", calls |-> 0, rawOutput |-> <<>>, fetched |-> None,
    cached |-> {}, returned |-> None ]

(***************************************************************************)
(* Observations of the overlay (content/index.tsx)                         *)
(***************************************************************************)
\* useState<string | null>(null) for lastRequestId
NoId == 0

\* handleObservation: the line is replaced and the request state reset
handleObservation(f, text) ==
  [f EXCEPT !.currentLine = text,
            !.quickLoading = FALSE,
            !.deepLoading = FALSE,
            !.quickResponse = None,
            !.lastRequestId = NoId,
            !.observations = @ + 1]

\* the overlay of the top frame, its own detector (ownLast is the detector's
\* lastSubtitle), the detector of a child frame running startSubtitleRelay
\* (childLast) and the messages posted to the top window and not yet
\* delivered; observations counts the calls of handleObservation
NewFrames ==
  [ currentLine |-> <<>>, lastRequestId |-> NoId, idsCreated |-> 0,
    quickLoading |-> FALSE, deepLoading |-> FALSE, quickResponse |-> None,
    ownLast |-> <<>>, childLast |-> <<>>, bridge |-> <<>>,
    observations |-> 0 ]

(***************************************************************************)
(* Variables                                                               *)
(***************************************************************************)
VARIABLES
  \* SpecKey: two calls of computeCacheKey
  keyText1, keyText2, keyProfile1, keyProfile2, keyResult1, keyResult2, keyPc,
  \* Date.now()
  clock,
  \* the 'records' object store of IndexedDB
  records,
  \* cachePolicy.ts cachedSettings, as getCacheSettings returns it
  settings,
  \* SpecCache: the cache writes that have put their record and not yet trimmed
  writers,
  \* SpecCache: writes started so far
  writesStarted,
  \* SpecCache: the cache call that has just completed a step, with what it
  \* was given and what it returned
  lastCall,
  \* Overlay (content/index.tsx): React state of the component
  currentLine, lastRequestId, quickLoading, quickError, deepLoading,
  quickResponse, deepData, bubbleVisible, triggerVisible,
  \* Overlay: lastRequestIdRef.current, and the lastRequestId the registered
  \* handleMessage listener closed over; both are set by passive effects
  lastRequestIdRef, listenerRequestId,
  \* createRequestId() calls made so far
  idsCreated,
  \* router.ts: the EXPLAIN_REQUESTs sent so far, each with the position of
  \* its processQuickExplain / processDeepExplain run
  requests,
  \* chrome.tabs.sendMessage: notifications on their way to the overlay
  inbox,
  \* SpecSse: the text the server streams and where the network cuts it
  body, splitAt,
  \* SpecSse: the locals of streamDeepExplain (NewStream) and the position
  \* of processDeepExplain around it
  stream, streamPc,
  \* chrome.storage under STORAGE_KEYS.apiKeys, as getApiKeys() gives it:
  \* openaiKey is whether the key is a non-empty string
  apiKeys,
  \* SpecDetector: the fields of one SubtitleDetector, its timers and the
  \* recognitions it has running
  detector,
  \* SpecSettings: cachePolicy.ts and the settings in chrome.storage.local
  cachePolicy,
  \* SpecStorage: chrome.storage and one storageSet call
  chromeStorage,
  \* SpecListener: the messages the background listener has received
  channel,
  \* SpecDeepData: the overlay's deep data and the deep streams
  drawer,
  \* SpecDebounce: the debounced scan and the timeouts of the window
  debouncer,
  \* SpecQuick: processQuickExplain calls and the quick responses cached
  quickCall,
  \* SpecBridge: the overlay of the top frame and the relay of a child frame
  frames

keyVars == <<keyText1, keyText2, keyProfile1, keyProfile2, keyResult1, keyResult2, keyPc>>

storeVars == <<clock, records, settings>>

cacheVars == <<writers, writesStarted, lastCall>>

overlayVars ==
  <<currentLine, lastRequestId, quickLoading, quickError, deepLoading,
    quickResponse, deepData, bubbleVisible, triggerVisible,
    lastRequestIdRef, listenerRequestId, idsCreated>>

routerVars == <<requests, inbox>>

sseVars == <<body, splitAt, stream, streamPc>>

\* the state of the cache key, the cache, the overlay and the router
coreVars == <<keyVars, storeVars, cacheVars, overlayVars, routerVars, sseVars, apiKeys>>

\* the state of the components that are followed on their own
sideVars == <<detector, cachePolicy, chromeStorage, channel, drawer, debouncer, quickCall, frames>>

\* the side components other than the one a specification follows
besidesDetector == <<cachePolicy, chromeStorage, channel, drawer, debouncer, quickCall, frames>>

besidesCachePolicy == <<detector, chromeStorage, channel, drawer, debouncer, quickCall, frames>>

besidesChromeStorage == <<detector, cachePolicy, channel, drawer, debouncer, quickCall, frames>>

besidesChannel == <<detector, cachePolicy, chromeStorage, drawer, debouncer, quickCall, frames>>

besidesDrawer == <<detector, cachePolicy, chromeStorage, channel, debouncer, quickCall, frames>>

besidesDebouncer == <<detector, cachePolicy, chromeStorage, channel, drawer, quickCall, frames>>

besidesQuickCall == <<detector, cachePolicy, chromeStorage, channel, drawer, debouncer, frames>>

besidesFrames == <<detector, cachePolicy, chromeStorage, channel, drawer, debouncer, quickCall>>

vars == <<coreVars, sideVars>>

(***************************************************************************)
(* SpecKey: computeCacheKey on bounded inputs                              *)
(***************************************************************************)
RECURSIVE SeqsUpTo(_, _)
SeqsUpTo(S, n) ==
  IF n = 0 THEN {<<>>}
  ELSE LET shorter == SeqsUpTo(S, n - 1)
       IN shorter \cup {Append(s, c) : s \in {t \in shorter : Len(t) = n - 1}, c \in S}

KeyTexts == SeqsUpTo(Alphabet, MaxTextLen)

\* profile ids are free-form strings (crypto.randomUUID() in the options page,
\* anything at all from the profile server); undefined when no profile is active
KeyProfiles ==
  {Undefined, <<"p">>, <<"q">>, <<"p", ":">>, <<"p", ":", ":">>, DefaultProfileKey}

KeyIdle ==
  /\ keyText1 = <<>> /\ keyText2 = <<>>
  /\ keyProfile1 = Undefined /\ keyProfile2 = Undefined
  /\ keyResult1 = <<>> /\ keyResult2 = <<>>
  /\ keyPc = "off"

\* no cache call has just completed
NoCall == [op |-> "none"]

\* useState('') for currentLine
NoLine == <<>>

\* the overlay as mounted, and a router that has received nothing
OverlayIdle ==
  /\ currentLine = NoLine
  /\ lastRequestId = NoId
  /\ quickLoading = FALSE
  /\ quickError = None
  /\ deepLoading = FALSE
  /\ quickResponse = None
  /\ deepData = None
  /\ bubbleVisible = FALSE
  /\ triggerVisible = FALSE
  /\ lastRequestIdRef = NoId
  /\ listenerRequestId = NoId
  /\ idsCreated = 0

RouterIdle ==
  /\ requests = <<>>
  /\ inbox = <<>>

\* no key is stored
KeyStoreIdle == apiKeys = [openaiKey |-> FALSE]

\* getApiKeys(): the stored key, or the default of the configuration
getApiKeys == apiKeys

\* no detector is running
DetectorIdle == detector = NewDetector

\* getCacheSettings has not been called
CachePolicyIdle == cachePolicy = NewCachePolicy

\* storageSet has not been called
ChromeStorageIdle == chromeStorage = NewChromeStorage

\* the background listener has received no message
ChannelIdle == channel = <<>>

\* no line has been explained
DrawerIdle == drawer = NewDrawer

\* debouncedScan has not been called
DebouncerIdle == debouncer = NewDebouncer

\* processQuickExplain has not been called
QuickCallIdle == quickCall = NewQuickCall

\* no detector has emitted
FramesIdle == frames = NewFrames

\* the components followed on their own are idle
SideIdle ==
  /\ DetectorIdle
  /\ CachePolicyIdle
  /\ ChromeStorageIdle
  /\ ChannelIdle
  /\ DrawerIdle
  /\ DebouncerIdle
  /\ QuickCallIdle
  /\ FramesIdle

\* no deep stream is being read
SseIdle ==
  /\ body = <<>>
  /\ splitAt = 0
  /\ stream = NewStream
  /\ streamPc = "off"

StoreIdle ==
  /\ clock = StartClock
  /\ records = {}
  /\ settings = [quickTtlMinutes |-> DefaultQuickTtlMinutes, maxEntries |-> EntriesBudget]

CacheIdle ==
  /\ writers = 0
  /\ writesStarted = 0
  /\ lastCall = NoCall

InitKey ==
  /\ SideIdle
  /\ KeyStoreIdle
  /\ StoreIdle
  /\ CacheIdle
  /\ OverlayIdle
  /\ RouterIdle
  /\ SseIdle
  /\ keyText1 \in KeyTexts
  /\ keyText2 \in KeyTexts
  /\ keyProfile1 \in KeyProfiles
  /\ keyProfile2 \in KeyProfiles
  /\ keyResult1 = <<>>
  /\ keyResult2 = <<>>
  /\ keyPc = "input"

ComputeKeys ==
  /\ keyPc = "input"
  /\ keyResult1' = computeCacheKey(keyText1, keyProfile1)
  /\ keyResult2' = computeCacheKey(keyText2, keyProfile2)
  /\ keyPc' = "done"
  /\ UNCHANGED <<keyText1, keyText2, keyProfile1, keyProfile2>>
  /\ UNCHANGED <<storeVars, cacheVars, overlayVars, routerVars, sseVars, apiKeys, sideVars>>

NextKey == ComputeKeys

SpecKey == InitKey /\ [][NextKey]_vars


(***************************************************************************)
(* SpecCache: writeQuickToCache / writeDeepToCache running concurrently,   *)
(* each suspended at its awaits, with reads and the clock in between       *)
(***************************************************************************)
CacheTexts == {<<" ", "A">>, <<"b">>}

CacheProfiles == {Undefined, <<"p">>}

QuickBodies == {"q1"}

DeepBodies == {"d1"}

\* the expiresAt a quick payload may carry at time `now`: none (falsy),
\* already passed, one minute ahead, and what fetchQuickExplain sets
RequestedExpiries(now) == {0, now - 1, now + MsPerMinute, now + FetchTtlMs}

QuickResponses(now) ==
  [requestId : {0}, body : QuickBodies, expiresAt : RequestedExpiries(now)]

DeepResponses == [requestId : {0}, body : DeepBodies]

\* the flows that write the cache: the quick path and the deep path of the router
WriteFlows == {"quick", "deep"}

\* normalizeSettings keeps quickTtlMinutes within 5..180; the run uses one policy
PolicyChoices ==
  [quickTtlMinutes : {MinQuickTtlMinutes}, maxEntries : {EntriesBudget}]

InitCache ==
  /\ SideIdle
  /\ KeyStoreIdle
  /\ KeyIdle
  /\ OverlayIdle
  /\ RouterIdle
  /\ SseIdle
  /\ clock = StartClock
  /\ records = {}
  /\ settings \in PolicyChoices
  /\ writers = 0
  /\ writesStarted = 0
  /\ lastCall = NoCall

\* the run is followed for one minute
ClockHorizon == StartClock + MsPerMinute

TickSteps == {MsPerMinute}

\* Date.now() advances
Tick(d) ==
  /\ clock + d <= ClockHorizon
  /\ clock' = clock + d

CacheTick ==
  /\ \E d \in TickSteps : Tick(d)
  /\ lastCall' = NoCall
  /\ UNCHANGED <<records, settings, keyVars, apiKeys, sideVars, sseVars, writers, writesStarted, overlayVars, routerVars>>

\* writeQuickToCache up to the end of `await writeRecord(...)`: the policy from
\* getCacheSettings, Date.now(), the clamped copy of the response, the put
WriteQuickPut ==
  /\ writers < Cardinality(WriteFlows)
  /\ writesStarted < MaxWrites
  /\ \E text \in CacheTexts, profileId \in CacheProfiles, response \in QuickResponses(clock) :
       /\ records' = writeRecord(records, quickRecord(text, response, profileId, settings, clock))
       /\ lastCall' = [op |-> "putQuick", key |-> computeCacheKey(text, profileId),
                       response |-> response]
  /\ writers' = writers + 1
  /\ writesStarted' = writesStarted + 1
  /\ UNCHANGED <<clock, settings, keyVars, apiKeys, sideVars, sseVars, overlayVars, routerVars>>

\* writeDeepToCache up to the end of `await writeRecord(...)`
WriteDeepPut ==
  /\ writers < Cardinality(WriteFlows)
  /\ writesStarted < MaxWrites
  /\ \E text \in CacheTexts, profileId \in CacheProfiles, response \in DeepResponses :
       /\ records' = writeRecord(records, deepRecord(text, response, profileId, clock))
       /\ lastCall' = [op |-> "putDeep", key |-> computeCacheKey(text, profileId),
                       response |-> response]
  /\ writers' = writers + 1
  /\ writesStarted' = writesStarted + 1
  /\ UNCHANGED <<clock, settings, keyVars, apiKeys, sideVars, sseVars, overlayVars, routerVars>>

\* `await trimRecords(settings.maxEntries)` and the write returns
WriteTrim ==
  /\ writers > 0
  /\ records' = trimRecords(records, settings.maxEntries)
  /\ lastCall' = [op |-> "trim", evicted |-> records \ records']
  /\ writers' = writers - 1
  /\ UNCHANGED <<clock, settings, keyVars, apiKeys, sideVars, sseVars, writesStarted, overlayVars, routerVars>>

\* a caller awaits readQuickFromCache
CacheReadQuick ==
  /\ \E text \in CacheTexts, profileId \in CacheProfiles :
       lastCall' = [op |-> "readQuick", key |-> computeCacheKey(text, profileId),
                    result |-> readQuickFromCache(records, text, profileId, clock)]
  /\ UNCHANGED <<storeVars, keyVars, apiKeys, sideVars, sseVars, writers, writesStarted, overlayVars, routerVars>>

\* a caller awaits readDeepFromCache
CacheReadDeep ==
  /\ \E text \in CacheTexts, profileId \in CacheProfiles :
       lastCall' = [op |-> "readDeep", key |-> computeCacheKey(text, profileId),
                    result |-> readDeepFromCache(records, text, profileId)]
  /\ UNCHANGED <<storeVars, keyVars, apiKeys, sideVars, sseVars, writers, writesStarted, overlayVars, routerVars>>

NextCache ==
  \/ CacheTick
  \/ WriteQuickPut
  \/ WriteDeepPut
  \/ WriteTrim
  \/ CacheReadQuick
  \/ CacheReadDeep

SpecCache == InitCache /\ [][NextCache]_vars


(***************************************************************************)
(* Spec: the overlay (content/index.tsx), the background router            *)
(* (router.ts) and the cache, with the messages between them               *)
(***************************************************************************)
\* EXPLAIN_REQUESTs sent in one run
MaxRequests == 3
\* chrome.tabs.sendMessage notifications in flight at one time
MaxInbox == 1
\* progress events one deep stream carries
MaxProgress == 1

\* subtitle lines the detector reports
OrchLines == {<<"a">>, <<"A">>}

\* getActiveProfile(): no active profile is stored, so profileId is undefined
ActiveProfileId == Undefined

\* the policy getCacheSettings returns during the run: the lowest TTL the
\* options page can save, or the default
OrchPolicies ==
  [quickTtlMinutes : {MinQuickTtlMinutes, DefaultQuickTtlMinutes}, maxEntries : {EntriesBudget}]

\* the run is followed for one lowest TTL
OrchTickStep == MinQuickTtlMinutes * MsPerMinute

OrchHorizon == StartClock + OrchTickStep

\* the explain server echoes the request's id in the `complete` event
DeepFinal(requestId) == [requestId |-> requestId, background |-> TRUE, body |-> "d1"]

\* handleSseEvent: progressPayload = {...parsed, requestId}
DeepProgress(requestId) == [requestId |-> requestId, background |-> TRUE]

\* fetchQuickExplain: the parsed reply with expiresAt: Date.now() + ttl
QuickFetched(requestId, now) ==
  [requestId |-> requestId, body |-> "q1", expiresAt |-> now + FetchTtlMs]

\* setDeepData((prev) => ({...(prev ?? {}), requestId}))
MergeRequestId(prev, requestId) ==
  IF prev = None
  THEN [requestId |-> requestId, background |-> FALSE, body |-> NoBody]
  ELSE [prev EXCEPT !.requestId = requestId]

\* setDeepData((prev) => ({...(prev ?? {}), ...message.payload}))
MergeProgress(prev, payload) ==
  IF prev = None
  THEN [requestId |-> payload.requestId, background |-> payload.background, body |-> NoBody]
  ELSE [prev EXCEPT !.requestId = payload.requestId, !.background = payload.background]

\* chrome.runtime.sendMessage({type: 'EXPLAIN_REQUEST', payload})
ExplainRequest(requestId, mode, text) ==
  [ requestId |-> requestId, mode |-> mode, subtitleText |-> text,
    pc |-> "lookup",
    \* quick: what processQuickExplain returns; deep: finalResult
    result |-> None,
    \* deep: progress events the stream has carried
    progress |-> 0,
    \* the terminal outcome the router has produced for this request
    outcome |-> "none",
    \* quick: the expiresAt of the copy writeQuickToCache stored
    storedExpiresAt |-> 0,
    \* what getApiKeys() gave this request: "unread", "set" or "missing"
    credential |-> "unread",
    \* calls made for this request: to the explanation endpoint (the
    \* completion call, the streaming call), to the profile server
    \* (fetchProfiles), and to the record store's writeRecord / trimRecords
    explainCalls |-> 0,
    profileCalls |-> 0,
    cacheCalls |-> 0 ]

\* emitToTab(tabId, {type, payload})
Notification(type, payload) == [type |-> type, payload |-> payload]

\* processQuickExplain after the cache read, with the call made whether
\* or not there is a key
quickAfterLookup_NoKeyCheck(req, cacheHit, openaiKey) ==
  IF cacheHit # None
  THEN [req EXCEPT !.pc = "replied", !.outcome = "cache-hit",
                   !.result = [ok |-> TRUE, cached |-> TRUE, response |-> cacheHit]]
  ELSE [req EXCEPT !.pc = "fetch", !.explainCalls = @ + 1,
                   !.credential = IF openaiKey THEN "set" ELSE "missing"]

\* processQuickExplain after the cache read: a hit is returned; on a miss
\* getApiKeys() is read, and without a key {ok: false} is returned, with a
\* key fetchQuickExplain is called
quickAfterLookup(req, cacheHit, openaiKey) ==
  IF cacheHit # None
  THEN [req EXCEPT !.pc = "replied", !.outcome = "cache-hit",
                   !.result = [ok |-> TRUE, cached |-> TRUE, response |-> cacheHit]]
  ELSE IF openaiKey
  THEN [req EXCEPT !.pc = "fetch", !.credential = "set", !.explainCalls = @ + 1]
  ELSE [req EXCEPT !.pc = "replied", !.credential = "missing", !.outcome = "failure",
                   !.result = [ok |-> FALSE,
                               error |-> [reason |-> "Missing OpenAI API key"]]]

\* the catch of processQuickExplain calling fetchQuickExplain once more
quickAfterFetchError_Retry(req) ==
  IF req.explainCalls < 2
  THEN [req EXCEPT !.explainCalls = @ + 1]
  ELSE [req EXCEPT !.pc = "replied", !.outcome = "failure",
                   !.result = [ok |-> FALSE, error |-> [reason |-> "fetch failed"]]]

\* processQuickExplain, the catch: {ok: false, error: reason}
quickAfterFetchError(req) ==
  [req EXCEPT !.pc = "replied", !.outcome = "failure",
              !.result = [ok |-> FALSE, error |-> [reason |-> "fetch failed"]]]

\* processQuickExplain after `await writeQuickToCache(...)`:
\* {ok: true, cached: false, response}
quickAfterWrite(req) ==
  [req EXCEPT !.pc = "replied", !.outcome = "success", !.cacheCalls = @ + 1]

Init ==
  /\ SideIdle
  /\ apiKeys \in [openaiKey : BOOLEAN]
  /\ KeyIdle
  /\ CacheIdle
  /\ OverlayIdle
  /\ RouterIdle
  /\ SseIdle
  /\ clock = StartClock
  /\ records = {}
  /\ settings \in OrchPolicies

OrchTick ==
  /\ clock + OrchTickStep <= OrchHorizon
  /\ clock' = clock + OrchTickStep
  /\ UNCHANGED <<records, settings, keyVars, apiKeys, sideVars, sseVars, cacheVars, overlayVars, routerVars>>

\* ---- overlay ----------------------------------------------------------

\* handleObservation, called by the detector (a timer or a MutationObserver
\* callback): the state is reset and rendered; the passive effects of that
\* render (ref sync, listener re-registration) run in a later task
Observe ==
  /\ \E text \in OrchLines :
       /\ text # currentLine
       /\ currentLine' = text
  /\ bubbleVisible' = FALSE
  /\ triggerVisible' = TRUE
  /\ quickLoading' = FALSE
  /\ quickError' = None
  /\ deepLoading' = FALSE
  /\ quickResponse' = None
  /\ deepData' = None
  /\ lastRequestId' = NoId
  /\ UNCHANGED <<lastRequestIdRef, listenerRequestId, idsCreated>>
  /\ UNCHANGED <<storeVars, keyVars, apiKeys, sideVars, sseVars, cacheVars, routerVars>>

\* the passive effects with dependency [lastRequestId]: handleMessage is
\* registered anew and lastRequestIdRef.current = lastRequestId
RunEffects ==
  /\ <<lastRequestIdRef, listenerRequestId>> # <<lastRequestId, lastRequestId>>
  /\ lastRequestIdRef' = lastRequestId
  /\ listenerRequestId' = lastRequestId
  /\ UNCHANGED <<currentLine, lastRequestId, quickLoading, quickError, deepLoading,
                 quickResponse, deepData, bubbleVisible, triggerVisible, idsCreated>>
  /\ UNCHANGED <<storeVars, keyVars, apiKeys, sideVars, sseVars, cacheVars, routerVars>>

\* handleTriggerClick and triggerQuickExplain up to its await; a click is a
\* discrete event, so the render and its passive effects are flushed with it
TriggerClick ==
  /\ triggerVisible /\ currentLine # NoLine /\ ~bubbleVisible
  /\ ~quickLoading
  /\ Len(requests) < MaxRequests
  /\ LET requestId == idsCreated + 1
     IN /\ idsCreated' = requestId
        /\ lastRequestId' = requestId
        /\ lastRequestIdRef' = requestId
        /\ listenerRequestId' = requestId
        /\ requests' = Append(requests, ExplainRequest(requestId, "quick", currentLine))
  /\ triggerVisible' = FALSE
  /\ bubbleVisible' = TRUE
  /\ quickLoading' = TRUE
  /\ deepData' = None
  /\ quickResponse' = None
  /\ quickError' = None
  /\ UNCHANGED <<currentLine, deepLoading, inbox>>
  /\ UNCHANGED <<storeVars, keyVars, apiKeys, sideVars, sseVars, cacheVars>>

\* handleBubbleClose
BubbleClose ==
  /\ bubbleVisible
  /\ bubbleVisible' = FALSE
  /\ triggerVisible' = TRUE
  /\ quickLoading' = FALSE
  /\ quickError' = None
  /\ lastRequestIdRef' = lastRequestId
  /\ listenerRequestId' = lastRequestId
  /\ UNCHANGED <<currentLine, lastRequestId, deepLoading, quickResponse, deepData, idsCreated>>
  /\ UNCHANGED <<storeVars, keyVars, apiKeys, sideVars, sseVars, cacheVars, routerVars>>

\* triggerDeepExplain, from the bubble's Deep Explain button
\* (disabled = loading || !response || !!error)
DeepClick ==
  /\ bubbleVisible /\ ~quickLoading /\ quickResponse # None /\ quickError = None
  /\ currentLine # NoLine
  /\ Len(requests) < MaxRequests
  /\ LET fresh == lastRequestId = NoId
         requestId == IF fresh THEN idsCreated + 1 ELSE lastRequestId
     IN /\ idsCreated' = IF fresh THEN requestId ELSE idsCreated
        /\ lastRequestId' = requestId
        /\ lastRequestIdRef' = requestId
        /\ listenerRequestId' = requestId
        /\ deepData' = MergeRequestId(deepData, requestId)
        /\ requests' = Append(requests, ExplainRequest(requestId, "deep", currentLine))
  /\ deepLoading' = TRUE
  /\ UNCHANGED <<currentLine, quickLoading, quickError, quickResponse, bubbleVisible,
                 triggerVisible, inbox>>
  /\ UNCHANGED <<storeVars, keyVars, apiKeys, sideVars, sseVars, cacheVars>>

\* triggerQuickExplain after `await requestQuickExplain(...)`
QuickResolve ==
  /\ \E i \in DOMAIN requests :
       LET req == requests[i]
       IN /\ req.mode = "quick" /\ req.pc = "replied"
          /\ requests' = [requests EXCEPT ![i].pc = "done"]
          /\ IF lastRequestIdRef # req.requestId
             THEN UNCHANGED <<quickResponse, quickError, quickLoading>>
             ELSE /\ quickResponse' = IF req.result.ok THEN req.result.response ELSE quickResponse
                  /\ quickError' = IF req.result.ok THEN None ELSE req.result.error
                  /\ quickLoading' = FALSE
  /\ UNCHANGED <<currentLine, lastRequestId, deepLoading, deepData, bubbleVisible,
                 triggerVisible, lastRequestIdRef, listenerRequestId, idsCreated, inbox>>
  /\ UNCHANGED <<storeVars, keyVars, apiKeys, sideVars, sseVars, cacheVars>>

\* handleMessage, the chrome.runtime.onMessage listener registered by the
\* last effect run
HandleMessage ==
  /\ inbox # <<>>
  /\ LET message == Head(inbox)
     IN IF message.payload.requestId # listenerRequestId
        THEN UNCHANGED <<deepData, deepLoading>>
        ELSE CASE message.type = "DEEP_EXPLAIN_READY" ->
                    /\ deepData' = message.payload
                    /\ deepLoading' = FALSE
               [] message.type = "DEEP_EXPLAIN_PROGRESS" ->
                    /\ deepData' = MergeProgress(deepData, message.payload)
                    /\ UNCHANGED deepLoading
               [] message.type = "REQUEST_FAILED" ->
                    /\ deepLoading' = FALSE
                    /\ UNCHANGED deepData
  /\ inbox' = Tail(inbox)
  /\ UNCHANGED <<currentLine, lastRequestId, quickLoading, quickError, quickResponse,
                 bubbleVisible, triggerVisible, lastRequestIdRef, listenerRequestId,
                 idsCreated, requests>>
  /\ UNCHANGED <<storeVars, keyVars, apiKeys, sideVars, sseVars, cacheVars>>

\* ---- router -----------------------------------------------------------

\* processQuickExplain up to the end of `await getApiKeys()`: a cache hit
\* returns {ok, cached: true, response: cacheHit}; a miss without a stored
\* OpenAI key returns {ok: false}; a miss with a key goes on to the call
QuickLookup ==
  /\ \E i \in DOMAIN requests :
       LET req == requests[i]
           cacheHit == readQuickFromCache(records, req.subtitleText, ActiveProfileId, clock)
       IN /\ req.mode = "quick" /\ req.pc = "lookup"
          /\ requests' = [requests EXCEPT ![i] = quickAfterLookup(req, cacheHit, getApiKeys.openaiKey)]
  /\ UNCHANGED <<storeVars, keyVars, apiKeys, sideVars, sseVars, cacheVars, overlayVars, inbox>>

\* `await fetchQuickExplain(...)` resolves
QuickFetchOk ==
  /\ \E i \in DOMAIN requests :
       LET req == requests[i]
       IN /\ req.mode = "quick" /\ req.pc = "fetch"
          /\ requests' = [requests EXCEPT ![i].pc = "put",
                            ![i].result = [ok |-> TRUE, cached |-> FALSE,
                                           response |-> QuickFetched(req.requestId, clock)]]
  /\ UNCHANGED <<storeVars, keyVars, apiKeys, sideVars, sseVars, cacheVars, overlayVars, inbox>>

\* `await fetchQuickExplain(...)` rejects: the catch returns {ok: false, error}
QuickFetchFail ==
  /\ \E i \in DOMAIN requests :
       LET req == requests[i]
       IN /\ req.mode = "quick" /\ req.pc = "fetch"
          /\ requests' = [requests EXCEPT ![i] = quickAfterFetchError(req)]
  /\ UNCHANGED <<storeVars, keyVars, apiKeys, sideVars, sseVars, cacheVars, overlayVars, inbox>>

\* writeQuickToCache up to the end of `await writeRecord(...)`
QuickWritePut ==
  /\ \E i \in DOMAIN requests :
       LET req == requests[i]
           record == quickRecord(req.subtitleText, req.result.response, ActiveProfileId,
                                 settings, clock)
       IN /\ req.mode = "quick" /\ req.pc = "put"
          /\ records' = writeRecord(records, record)
          /\ requests' = [requests EXCEPT ![i].pc = "trim",
                            ![i].storedExpiresAt = record.quick.expiresAt,
                            ![i].cacheCalls = @ + 1]
  /\ UNCHANGED <<clock, settings, keyVars, apiKeys, sideVars, sseVars, cacheVars, overlayVars, inbox>>

\* `await trimRecords(...)`, then processQuickExplain returns
\* {ok, cached: false, response}
QuickWriteTrim ==
  /\ \E i \in DOMAIN requests :
       LET req == requests[i]
       IN /\ req.mode = "quick" /\ req.pc = "trim"
          /\ records' = trimRecords(records, settings.maxEntries)
          /\ requests' = [requests EXCEPT ![i] = quickAfterWrite(req)]
  /\ UNCHANGED <<clock, settings, keyVars, apiKeys, sideVars, sseVars, cacheVars, overlayVars, inbox>>

\* `await trimRecords(...)` rejects (the readwrite transaction fails) after
\* writeRecord committed: the try block of processQuickExplain covers
\* writeQuickToCache, so the catch returns {ok: false, error: reason}
QuickWriteFail ==
  /\ \E i \in DOMAIN requests :
       LET req == requests[i]
       IN /\ req.mode = "quick" /\ req.pc = "trim"
          /\ requests' = [requests EXCEPT ![i].pc = "replied", ![i].outcome = "failure",
                            ![i].cacheCalls = @ + 1,
                            ![i].result = [ok |-> FALSE,
                                           error |-> [reason |-> "cache write failed"]]]
  /\ UNCHANGED <<storeVars, keyVars, apiKeys, sideVars, sseVars, cacheVars, overlayVars, inbox>>

\* processDeepExplain up to the end of `await readDeepFromCache(...)`, with
\* getActiveProfile and fetchProfiles before the read: a hit emits
\* DEEP_EXPLAIN_READY with the cached payload; a miss goes into
\* streamDeepExplain, which reads the keys (the X-OpenAI-Key header is set
\* only when there is a key) and opens the streaming call
DeepLookup ==
  /\ \E i \in DOMAIN requests :
       LET req == requests[i]
           cacheHit == readDeepFromCache(records, req.subtitleText, ActiveProfileId)
       IN /\ req.mode = "deep" /\ req.pc = "lookup"
          /\ IF cacheHit # None
             THEN /\ Len(inbox) < MaxInbox
                  /\ inbox' = Append(inbox, Notification("DEEP_EXPLAIN_READY", cacheHit))
                  /\ requests' = [requests EXCEPT ![i].pc = "done", ![i].outcome = "cache-hit",
                                     ![i].profileCalls = @ + 1]
             ELSE /\ requests' = [requests EXCEPT ![i].pc = "stream",
                                     ![i].profileCalls = @ + 1,
                                     ![i].credential = IF getApiKeys.openaiKey THEN "set" ELSE "missing",
                                     ![i].explainCalls = @ + 1]
                  /\ UNCHANGED inbox
  /\ UNCHANGED <<storeVars, keyVars, apiKeys, sideVars, sseVars, cacheVars, overlayVars>>

\* streamDeepExplain reads a progress event: handleSseEvent emits
\* DEEP_EXPLAIN_PROGRESS (also after a `complete` event: the loop reads on
\* until the stream is done)
DeepStreamProgress ==
  /\ Len(inbox) < MaxInbox
  /\ \E i \in DOMAIN requests :
       LET req == requests[i]
       IN /\ req.mode = "deep" /\ req.pc = "stream"
          /\ req.progress < MaxProgress
          /\ inbox' = Append(inbox, Notification("DEEP_EXPLAIN_PROGRESS",
                                                 DeepProgress(req.requestId)))
          /\ requests' = [requests EXCEPT ![i].progress = req.progress + 1]
  /\ UNCHANGED <<storeVars, keyVars, apiKeys, sideVars, sseVars, cacheVars, overlayVars>>

\* streamDeepExplain reads the `complete` event: onComplete sets finalResult
DeepStreamComplete ==
  /\ \E i \in DOMAIN requests :
       LET req == requests[i]
       IN /\ req.mode = "deep" /\ req.pc = "stream"
          /\ req.result = None
          /\ requests' = [requests EXCEPT ![i].result = DeepFinal(req.requestId)]
  /\ UNCHANGED <<storeVars, keyVars, apiKeys, sideVars, sseVars, cacheVars, overlayVars, inbox>>

\* the fetch fails, the stream carries an `error` event, or it ends without
\* a `complete` event: streamDeepExplain throws and the catch of
\* processDeepExplain emits REQUEST_FAILED
DeepStreamFail ==
  /\ Len(inbox) < MaxInbox
  /\ \E i \in DOMAIN requests :
       LET req == requests[i]
       IN /\ req.mode = "deep" /\ req.pc = "stream"
          /\ inbox' = Append(inbox, Notification("REQUEST_FAILED",
                         [requestId |-> req.requestId, mode |-> req.mode,
                          reason |-> [message |-> "Deep explain failed"]]))
          /\ requests' = [requests EXCEPT ![i].pc = "done", ![i].outcome = "failure"]
  /\ UNCHANGED <<storeVars, keyVars, apiKeys, sideVars, sseVars, cacheVars, overlayVars>>

\* the stream is done with finalResult set: DEEP_EXPLAIN_READY is emitted and
\* streamDeepExplain returns
DeepStreamDone ==
  /\ Len(inbox) < MaxInbox
  /\ \E i \in DOMAIN requests :
       LET req == requests[i]
       IN /\ req.mode = "deep" /\ req.pc = "stream"
          /\ req.result # None
          /\ inbox' = Append(inbox, Notification("DEEP_EXPLAIN_READY", req.result))
          /\ requests' = [requests EXCEPT ![i].pc = "put", ![i].outcome = "success"]
  /\ UNCHANGED <<storeVars, keyVars, apiKeys, sideVars, sseVars, cacheVars, overlayVars>>

\* writeDeepToCache up to the end of `await writeRecord(...)`
DeepWritePut ==
  /\ \E i \in DOMAIN requests :
       LET req == requests[i]
       IN /\ req.mode = "deep" /\ req.pc = "put"
          /\ records' = writeRecord(records, deepRecord(req.subtitleText, req.result,
                                                        ActiveProfileId, clock))
          /\ requests' = [requests EXCEPT ![i].pc = "trim", ![i].cacheCalls = @ + 1]
  /\ UNCHANGED <<clock, settings, keyVars, apiKeys, sideVars, sseVars, cacheVars, overlayVars, inbox>>

\* `await trimRecords(...)`, then processDeepExplain returns
DeepWriteTrim ==
  /\ \E i \in DOMAIN requests :
       LET req == requests[i]
       IN /\ req.mode = "deep" /\ req.pc = "trim"
          /\ records' = trimRecords(records, settings.maxEntries)
          /\ requests' = [requests EXCEPT ![i].pc = "done", ![i].cacheCalls = @ + 1]
  /\ UNCHANGED <<clock, settings, keyVars, apiKeys, sideVars, sseVars, cacheVars, overlayVars, inbox>>

\* `await trimRecords(...)` rejects after writeRecord committed: the try block
\* of processDeepExplain covers writeDeepToCache, so the catch calls emitFailure
DeepWriteFail ==
  /\ Len(inbox) < MaxInbox
  /\ \E i \in DOMAIN requests :
       LET req == requests[i]
       IN /\ req.mode = "deep" /\ req.pc = "trim"
          /\ inbox' = Append(inbox, Notification("REQUEST_FAILED",
                         [requestId |-> req.requestId, mode |-> req.mode,
                          reason |-> [message |-> "Deep explain failed"]]))
          /\ requests' = [requests EXCEPT ![i].pc = "done", ![i].outcome = "failure",
                            ![i].cacheCalls = @ + 1]
  /\ UNCHANGED <<storeVars, keyVars, apiKeys, sideVars, sseVars, cacheVars, overlayVars>>

Next ==
  \/ OrchTick
  \/ Observe
  \/ RunEffects
  \/ TriggerClick
  \/ BubbleClose
  \/ DeepClick
  \/ QuickResolve
  \/ HandleMessage
  \/ QuickLookup
  \/ QuickFetchOk
  \/ QuickFetchFail
  \/ QuickWritePut
  \/ QuickWriteTrim
  \/ DeepLookup
  \/ DeepStreamProgress
  \/ DeepStreamComplete
  \/ DeepStreamFail
  \/ DeepStreamDone
  \/ DeepWritePut
  \/ DeepWriteTrim

Spec == Init /\ [][Next]_vars

(***************************************************************************)
(* SpecRouter: the background router (router.ts) and the cache on their    *)
(* own: EXPLAIN_REQUEST messages arrive from any tab in any order, and a   *)
(* trimRecords transaction may fail                                        *)
(***************************************************************************)
\* EXPLAIN_REQUESTs received in one run
MaxRouterRequests == 2

InitRouter ==
  /\ SideIdle
  /\ apiKeys \in [openaiKey : BOOLEAN]
  /\ KeyIdle
  /\ CacheIdle
  /\ OverlayIdle
  /\ RouterIdle
  /\ SseIdle
  /\ clock = StartClock
  /\ records = {}
  /\ settings \in OrchPolicies

\* handleMessage, case 'EXPLAIN_REQUEST': processQuickExplain or
\* processDeepExplain starts with the payload of the message
ReceiveExplainRequest ==
  /\ Len(requests) < MaxRouterRequests
  /\ \E mode \in {"quick", "deep"}, subtitleText \in OrchLines :
       requests' = Append(requests, ExplainRequest(Len(requests) + 1, mode, subtitleText))
  /\ UNCHANGED <<storeVars, keyVars, apiKeys, sideVars, sseVars, cacheVars, overlayVars, inbox>>

\* handleMessage, case 'STORE_API_KEYS': saveApiKeys(message.payload), with
\* a key or without one
StoreApiKeys ==
  /\ \E openaiKey \in BOOLEAN :
       /\ apiKeys.openaiKey # openaiKey
       /\ apiKeys' = [openaiKey |-> openaiKey]
  /\ UNCHANGED <<storeVars, keyVars, sseVars, cacheVars, overlayVars, routerVars, sideVars>>

\* emitToTab: chrome.tabs.sendMessage hands the notification to the tab
TabReceives ==
  /\ inbox # <<>>
  /\ inbox' = Tail(inbox)
  /\ UNCHANGED <<storeVars, keyVars, apiKeys, sideVars, sseVars, cacheVars, overlayVars, requests>>

NextRouter ==
  \/ OrchTick
  \/ ReceiveExplainRequest
  \/ StoreApiKeys
  \/ TabReceives
  \/ QuickLookup
  \/ QuickFetchOk
  \/ QuickFetchFail
  \/ QuickWritePut
  \/ QuickWriteTrim
  \/ QuickWriteFail
  \/ DeepLookup
  \/ DeepStreamProgress
  \/ DeepStreamComplete
  \/ DeepStreamFail
  \/ DeepStreamDone
  \/ DeepWritePut
  \/ DeepWriteTrim
  \/ DeepWriteFail

SpecRouter == InitRouter /\ [][NextRouter]_vars

(***************************************************************************)
(* SpecSse: one deep request whose response body arrives in two chunks,    *)
(* cut at any offset, and is decoded by streamDeepExplain                  *)
(***************************************************************************)
\* the text of the stream split-boundary scenario
CompleteRecord == <<"e", "v", "e", "n", "t", ":", " ", "c", "o", "m", "p", "l", "e", "t", "e", "\n", "d", "a", "t", "a", ":", " ", "{", "\"", "a", "\"", ":", "1", "}">>

SecondCompleteRecord == <<"e", "v", "e", "n", "t", ":", " ", "c", "o", "m", "p", "l", "e", "t", "e", "\n", "d", "a", "t", "a", ":", " ", "{", "\"", "a", "\"", ":", "2", "}">>

ProgressRecord == <<"e", "v", "e", "n", "t", ":", " ", "p", "r", "o", "g", "r", "e", "s", "s", "\n", "d", "a", "t", "a", ":", " ", "{", "\"", "b", "\"", ":", "2", "}">>

\* the reason the server puts in its error event
ErrorReasonSent == <<"x">>

ErrorRecord ==
  <<"e", "v", "e", "n", "t", ":", " ", "e", "r", "r", "o", "r", "\n", "d", "a", "t", "a", ":", " ", "{", "\"", "r", "e", "a", "s", "o", "n", "\"", ":", "\"">> \o ErrorReasonSent \o <<"\"", "}">>

\* an `event:` line with no data line
BareErrorRecord == <<"e", "v", "e", "n", "t", ":", " ", "e", "r", "r", "o", "r">>

\* response bodies the explain server may stream
StreamBodies ==
  { <<>>,
    CompleteRecord,
    CompleteRecord \o RecordSeparator,
    ProgressRecord \o RecordSeparator,
    ProgressRecord \o RecordSeparator \o CompleteRecord \o RecordSeparator,
    CompleteRecord \o RecordSeparator \o ProgressRecord \o RecordSeparator,
    CompleteRecord \o RecordSeparator \o ErrorRecord \o RecordSeparator,
    CompleteRecord \o RecordSeparator \o SecondCompleteRecord \o RecordSeparator,
    ErrorRecord \o RecordSeparator \o CompleteRecord \o RecordSeparator,
    ErrorRecord \o RecordSeparator \o ProgressRecord \o RecordSeparator,
    BareErrorRecord \o RecordSeparator \o CompleteRecord \o RecordSeparator }

\* payload.requestId and payload.subtitleText of the request
SseRequestId == 1

SseText == <<"a">>

InitSse ==
  /\ SideIdle
  /\ KeyStoreIdle
  /\ KeyIdle
  /\ StoreIdle
  /\ CacheIdle
  /\ OverlayIdle
  /\ RouterIdle
  /\ body \in StreamBodies
  /\ splitAt \in 0..Len(body)
  /\ stream = NewStream
  /\ streamPc = "first"

\* the chunk reader.read() resolves with
Chunk(pc) ==
  IF pc = "first" THEN SubSeq(body, 1, splitAt) ELSE SubSeq(body, splitAt + 1, Len(body))

\* one pass of the read loop: `await reader.read()` resolves with a chunk,
\* the buffer is processed; an exception leaves streamDeepExplain and the
\* catch of processDeepExplain emits REQUEST_FAILED
SseRead ==
  /\ streamPc \in {"first", "second"}
  /\ LET after == readChunk(Chunk(streamPc), SseRequestId, stream)
     IN IF after.thrown # None
        THEN /\ stream' = emitFailure(SseRequestId, "deep", after)
             /\ streamPc' = "failed"
        ELSE /\ stream' = after
             /\ streamPc' = IF streamPc = "first" THEN "second" ELSE "end"
  /\ UNCHANGED <<body, splitAt>>
  /\ UNCHANGED <<storeVars, keyVars, apiKeys, sideVars, cacheVars, overlayVars, routerVars>>

\* `await reader.read()` resolves with done: the loop ends
SseEnd ==
  /\ streamPc = "end"
  /\ LET after == endOfStream(SseRequestId, stream)
     IN IF after.thrown # None
        THEN /\ stream' = emitFailure(SseRequestId, "deep", after)
             /\ streamPc' = "failed"
        ELSE /\ stream' = after
             /\ streamPc' = "write"
  /\ UNCHANGED <<body, splitAt>>
  /\ UNCHANGED <<storeVars, keyVars, apiKeys, sideVars, cacheVars, overlayVars, routerVars>>

\* processDeepExplain: `await writeDeepToCache(...)` and return
SseWrite ==
  /\ streamPc = "write"
  /\ records' = trimRecords(
                  writeRecord(records, deepRecord(SseText, stream.finalResult,
                                                  ActiveProfileId, clock)),
                  settings.maxEntries)
  /\ streamPc' = "done"
  /\ UNCHANGED <<body, splitAt, stream>>
  /\ UNCHANGED <<clock, settings, keyVars, apiKeys, sideVars, cacheVars, overlayVars, routerVars>>

NextSse ==
  \/ SseRead
  \/ SseEnd
  \/ SseWrite

SpecSse == InitSse /\ [][NextSse]_vars

(***************************************************************************)
(* C1 - C4: requests, staleness and the quick scenario                     *)
(***************************************************************************)
\* request id `requestId` has been superseded: another request's id is the
\* overlay's current request id
Superseded(requestId) == lastRequestId # NoId /\ lastRequestId # requestId

\* request i is in its network call (the deep stream) and this step sends a
\* notification from it
StreamEmits(i) ==
  /\ requests[i].mode = "deep" /\ requests[i].pc = "stream"
  /\ requests'[i] # requests[i]
  /\ Len(inbox') > Len(inbox)

\* C1: once request A is superseded by request B before A's network call
\* resolves, nothing is sent for A any more: no step of A's stream
\* (progress, completion, failure) sends DEEP_EXPLAIN_PROGRESS,
\* DEEP_EXPLAIN_READY or REQUEST_FAILED while another request's id is the
\* current request id.
C1_NoStaleNotification ==
  [][\A i \in DOMAIN requests : StreamEmits(i) => ~Superseded(requests[i].requestId)]_vars

\* what the overlay displays of a request
Displayed == <<quickResponse, deepData, quickError, quickLoading, deepLoading>>

\* this step is the overlay receiving the quick reply of request i
QuickReplyArrives(i) ==
  requests[i].mode = "quick" /\ requests[i].pc = "replied" /\ requests'[i].pc = "done"

\* this step is the overlay receiving the notification at the head of inbox
NotificationArrives == inbox # <<>> /\ inbox' = Tail(inbox)

\* C2: a quick reply or a notification that belongs to a requestId other
\* than the current request id leaves the displayed quick result, deep data,
\* error and loading flags as they are.
C2_StaleNeverApplied ==
  [][ /\ \A i \in DOMAIN requests :
           (QuickReplyArrives(i) /\ requests[i].requestId # lastRequestId)
             => UNCHANGED Displayed
      /\ (NotificationArrives /\ Head(inbox).payload.requestId # lastRequestId)
           => UNCHANGED Displayed ]_vars

\* the deep requests sent under `requestId` for which the router has sent a
\* terminal notification (DEEP_EXPLAIN_READY from the cache or from the
\* stream, or REQUEST_FAILED)
TerminalNotifications(requestId) ==
  {i \in DOMAIN requests :
     /\ requests[i].mode = "deep"
     /\ requests[i].requestId = requestId
     /\ requests[i].outcome # "none"}

\* C3: no requestId receives two terminal results: not a DEEP_EXPLAIN_READY
\* and a REQUEST_FAILED, and not two of either.
C3_OneTerminalOutcome ==
  \A requestId \in 1..idsCreated : Cardinality(TerminalNotifications(requestId)) <= 1

\* request i missed the cache, got its result from the external call and has
\* written it; request j asks for the same normalized text and profile and
\* looks the cache up in this step, before the stored copy's expiry
RepeatsWithinTtl(i, j) ==
  /\ requests[i].mode = "quick" /\ requests[i].outcome = "success"
  /\ requests[j].mode = "quick"
  /\ requests[j].pc = "lookup" /\ requests'[j].pc # "lookup"
  /\ computeCacheKey(requests[j].subtitleText, ActiveProfileId)
       = computeCacheKey(requests[i].subtitleText, ActiveProfileId)
  /\ clock < requests[i].storedExpiresAt

\* C4: a quick result from the external call is stored with an expiry no
\* later than the policy TTL, and a repeat of the request within the TTL
\* window is answered cached:true with the payload the first request returned.
C4_RepeatIsCachedAndIdentical ==
  [][ /\ \A i \in DOMAIN requests :
           (requests[i].mode = "quick" /\ requests[i].pc = "put" /\ requests'[i].pc = "trim")
             => requests'[i].storedExpiresAt <= clock + settings.quickTtlMinutes * MsPerMinute
      /\ \A i, j \in DOMAIN requests :
           RepeatsWithinTtl(i, j)
             => /\ requests'[j].outcome = "cache-hit"
                /\ requests'[j].result.response = requests[i].result.response ]_vars

(***************************************************************************)
(* C11 - C14: the stream decoder                                           *)
(***************************************************************************)
\* streamDeepExplain has returned or thrown
StreamOver == streamPc \in {"write", "done", "failed"}

\* the positions of the log at which an event of type `eventType` was handled
Handled(eventType) == {i \in DOMAIN stream.handled : stream.handled[i] = eventType}

\* the positions of the emitted messages of type `type`
Emitted(type) == {i \in DOMAIN stream.emitted : stream.emitted[i].type = type}

\* C11: the text `event: complete\ndata: {"a":1}`, cut at any offset into
\* two chunks and followed by the end of the stream, yields exactly one
\* complete event, with payload {a: 1}.
C11_SplitBoundary ==
  (body = CompleteRecord /\ StreamOver)
    => /\ Cardinality(Handled(CompleteType)) = 1
       /\ stream.finalResult = [members |-> {<< <<"a">>, [number |-> 1] >>}]

\* C12: a stream that is over without a complete event having been decoded
\* is a failure: no DEEP_EXPLAIN_READY was emitted, the cache holds nothing,
\* and REQUEST_FAILED was emitted for the request.
C12_IncompleteStreamFails ==
  (StreamOver /\ stream.finalResult = None)
    => /\ streamPc = "failed"
       /\ Emitted("DEEP_EXPLAIN_READY") = {}
       /\ records = {}
       /\ Emitted("REQUEST_FAILED") = {Len(stream.emitted)}
       /\ stream.emitted[Len(stream.emitted)].payload.requestId = SseRequestId
       /\ stream.emitted[Len(stream.emitted)].payload.mode = "deep"

\* a stream of one progress event has ended
C12_Witness ==
  /\ body = ProgressRecord \o RecordSeparator
  /\ streamPc = "failed"
  /\ stream.thrown = [message |-> "Deep explain stream ended without completion event"]
  /\ Len(stream.emitted) = 2

\* C13: a complete event is the last event handled, and the request it
\* completes does not fail: no progress, second complete or error record
\* after it is processed.
C13_CompleteIsFinal ==
  \A i \in Handled(CompleteType) :
    /\ i = Len(stream.handled)
    /\ streamPc # "failed"

\* C14: an error event is the last event handled; the request fails with
\* the reason the event carries, and no DEEP_EXPLAIN_READY is emitted.
C14_ErrorAborts ==
  \A i \in Handled(ErrorType) :
    /\ i = Len(stream.handled)
    /\ streamPc = "failed"
    /\ Emitted("DEEP_EXPLAIN_READY") = {}
    /\ stream.emitted # <<>>
    /\ stream.emitted[Len(stream.emitted)] =
         [type |-> "REQUEST_FAILED",
          payload |-> [requestId |-> SseRequestId, mode |-> "deep",
                       reason |-> [string |-> ErrorReasonSent]]]

\* an error event was handled and a complete record followed it in the body
C14_Witness ==
  /\ body = ErrorRecord \o RecordSeparator \o CompleteRecord \o RecordSeparator
  /\ splitAt = Len(body)
  /\ streamPc = "failed"
  /\ stream.handled = <<ErrorType>>

(***************************************************************************)
(* SpecDetector: one SubtitleDetector on a page that changes, with its     *)
(* debounce and cooldown timeouts and its recognitions                     *)
(***************************************************************************)
\* scanDom passes in one run
MaxScanPasses == 4

\* nothing else of the extension is running
CoreIdle ==
  /\ KeyStoreIdle
  /\ KeyIdle
  /\ StoreIdle
  /\ CacheIdle
  /\ OverlayIdle
  /\ RouterIdle
  /\ SseIdle

\* what document.querySelectorAll finds for the subtitle selectors: visible
\* elements with their innerText and their scoreCandidate score in tenths
PageElements ==
  { <<>>,
    <<[innerText |-> <<"a">>, score |-> 20]>>,
    <<[innerText |-> <<"A", "\n">>, score |-> 16]>>,
    <<[innerText |-> <<"a">>, score |-> 10]>>,
    <<[innerText |-> <<"a">>, score |-> 0]>>,
    <<[innerText |-> <<" ">>, score |-> 20]>>,
    <<[innerText |-> <<"a">>, score |-> 10], [innerText |-> <<" ", "A">>, score |-> 20]>>,
    <<[innerText |-> <<"a">>, score |-> 20], [innerText |-> <<"A">>, score |-> 20]>> }

\* the page at the time of a scan: the elements, the text of the active cue
\* of the video's text track, the textContent of the live regions, and
\* whether captureVideoFrame gets a canvas
Pages ==
  [ elements : PageElements,
    cueText : {<<>>, <<"a", " ">>, <<" ">>},
    liveText : {<<>>, <<"A">>},
    canvas : BOOLEAN ]

\* what worker.recognize gives runOcr: a text and a confidence, or a rejection
OcrResults ==
  [text : {<<>>, <<"a", "\n">>, <<"A">>}, confidence : {MinConfidence, 90}, threw : {FALSE}]
    \cup {[text |-> <<>>, confidence |-> 0, threw |-> TRUE]}

InitDetector ==
  /\ CoreIdle
  /\ CachePolicyIdle
  /\ ChromeStorageIdle
  /\ ChannelIdle
  /\ DrawerIdle
  /\ DebouncerIdle
  /\ QuickCallIdle
  /\ FramesIdle
  /\ detector \in {[NewDetector EXCEPT !.preferredHost = preferred] : preferred \in BOOLEAN}

\* onSubtitle(listener)
OnSubtitle ==
  /\ ~detector.stopped
  /\ OverlayListener \notin detector.listeners
  /\ detector' = [detector EXCEPT !.listeners = @ \cup {OverlayListener}]
  /\ UNCHANGED <<coreVars, besidesDetector>>

\* start(): the MutationObserver observes document.body and scanDom runs once
DetectorStart ==
  /\ detector.observer = "none"
  /\ \E page \in Pages :
       detector' = scanDom([detector EXCEPT !.observer = "observing"], page)
  /\ UNCHANGED <<coreVars, besidesDetector>>

\* the MutationObserver callback: debouncedScan() clears the pending timeout
\* and sets a new one
Mutation ==
  /\ detector.observer = "observing"
  /\ detector' = [detector EXCEPT !.debounceTimeout = TRUE]
  /\ UNCHANGED <<coreVars, besidesDetector>>

\* the timeout of debounce fires: scanDom
DebounceFires ==
  /\ detector.debounceTimeout
  /\ detector.scanPasses < MaxScanPasses
  /\ \E page \in Pages :
       detector' = scanDom([detector EXCEPT !.debounceTimeout = FALSE,
                                            !.timeoutsFired = @ + 1], page)
  /\ UNCHANGED <<coreVars, besidesDetector>>

\* `await runOcr(canvas)` of one scheduleOcrFallback call returns or rejects
OcrReturns ==
  /\ \E k \in DOMAIN detector.recognitions, result \in OcrResults :
       detector' = ocrReturns(detector, k, result)
  /\ UNCHANGED <<coreVars, besidesDetector>>

\* a cooldown timeout fires: this.ocrCooldown = false
CooldownFires ==
  /\ detector.cooldownTimeouts > 0
  /\ detector' = [detector EXCEPT !.cooldownTimeouts = @ - 1,
                                  !.ocrCooldown = FALSE,
                                  !.timeoutsFired = @ + 1]
  /\ UNCHANGED <<coreVars, besidesDetector>>

\* stop(): this.observer?.disconnect(); this.listeners.clear()
DetectorStop ==
  /\ detector.observer = "observing"
  /\ detector' = [detector EXCEPT !.observer = "disconnected",
                                  !.listeners = {},
                                  !.stopped = TRUE]
  /\ UNCHANGED <<coreVars, besidesDetector>>

NextDetector ==
  \/ OnSubtitle
  \/ DetectorStart
  \/ Mutation
  \/ DebounceFires
  \/ OcrReturns
  \/ CooldownFires
  \/ DetectorStop

SpecDetector == InitDetector /\ [][NextDetector]_vars

(***************************************************************************)
(* SpecSettings: getCacheSettings calls while the options page stores and  *)
(* removes settings                                                        *)
(***************************************************************************)
\* getCacheSettings calls that wait for one load
MaxWaiting == 2

\* what can be stored as quickTtlMinutes: nothing, a string, or a number
\* (0, 4.5, 5.5, 180.5)
RawTtls ==
  {[kind |-> "undefined"], [kind |-> "string"]}
    \cup {[kind |-> "number", halves |-> h] : h \in {0, 9, 11, 361}}

\* what can be stored as maxEntries: NaN, or a number (-1, 0.5, 49.5, 50.5,
\* 2000.5)
RawEntries ==
  {[kind |-> "NaN"]}
    \cup {[kind |-> "number", halves |-> h] : h \in {-2, 1, 99, 101, 4001}}

\* the values of chrome.storage.local[CACHE_SETTINGS_KEY]
RawSettings ==
  {NothingStored}
    \cup [kind : {"object"}, quickTtlMinutes : RawTtls, maxEntries : RawEntries]

InitSettings ==
  /\ CoreIdle
  /\ DetectorIdle
  /\ ChromeStorageIdle
  /\ ChannelIdle
  /\ DrawerIdle
  /\ DebouncerIdle
  /\ QuickCallIdle
  /\ FramesIdle
  /\ cachePolicy \in {[NewCachePolicy EXCEPT !.stored = raw] : raw \in RawSettings}

\* getCacheSettings(): ensureListener, then the cached settings once loaded,
\* else the loadingPromise, created by the first caller
GetCacheSettings ==
  /\ cachePolicy.waiting < MaxWaiting
  /\ cachePolicy' =
       IF cachePolicy.hasLoaded
       THEN [cachePolicy EXCEPT
               !.listenerRegistered = TRUE,
               !.calls = (@ + 1) % 2,
               !.returned = [kind |-> "settings",
                             settings |-> cachePolicy.cachedSettings,
                             from |-> cachePolicy.cachedFrom]]
       ELSE [cachePolicy EXCEPT
               !.listenerRegistered = TRUE,
               !.waiting = @ + 1,
               !.loadingPromise =
                  IF @.kind = "null"
                  THEN [kind |-> "pending", raw |-> cachePolicy.stored]
                  ELSE @]
  /\ UNCHANGED <<coreVars, besidesCachePolicy>>

\* the callback of readSettingsFromStorage and the `then` of loadingPromise
LoadResolves ==
  /\ cachePolicy.loadingPromise.kind = "pending"
  /\ LET raw == cachePolicy.loadingPromise.raw
         loaded == normalizeSettings(raw)
     IN cachePolicy' = [cachePolicy EXCEPT
                          !.cachedSettings = loaded,
                          !.cachedFrom = raw,
                          !.hasLoaded = TRUE,
                          !.loadingPromise = [kind |-> "null"],
                          !.waiting = 0,
                          !.returned = [kind |-> "settings", settings |-> loaded, from |-> raw]]
  /\ UNCHANGED <<coreVars, besidesCachePolicy>>

\* the options page stores or removes the settings; the
\* chrome.storage.onChanged listener, once registered, normalizes
\* change.newValue
StorageChanged ==
  /\ \E raw \in RawSettings :
       /\ raw # cachePolicy.stored
       /\ cachePolicy' =
            IF cachePolicy.listenerRegistered
            THEN [cachePolicy EXCEPT !.stored = raw,
                                     !.cachedSettings = normalizeSettings(raw),
                                     !.cachedFrom = raw]
            ELSE [cachePolicy EXCEPT !.stored = raw]
  /\ UNCHANGED <<coreVars, besidesCachePolicy>>

NextSettings ==
  \/ GetCacheSettings
  \/ LoadResolves
  \/ StorageChanged

SpecSettings == InitSettings /\ [][NextSettings]_vars

(***************************************************************************)
(* SpecStorage: storageSet calls against areas whose writes can fail       *)
(***************************************************************************)
\* the values stored under the keys of `items`
StoredItems == {"keysA", "keysB", "profileA"}

InitStorage ==
  /\ CoreIdle
  /\ DetectorIdle
  /\ CachePolicyIdle
  /\ ChannelIdle
  /\ DrawerIdle
  /\ DebouncerIdle
  /\ QuickCallIdle
  /\ FramesIdle
  /\ chromeStorage \in
       {[NewChromeStorage EXCEPT !.sync = IF hasSync THEN inSync ELSE NoItems,
                                 !.local = inLocal,
                                 !.hasSync = hasSync] :
          inSync \in StoredItems \cup {NoItems},
          inLocal \in StoredItems \cup {NoItems},
          hasSync \in BOOLEAN}

\* storageSet is called while no earlier call is outstanding
StorageSet ==
  /\ chromeStorage.pending = "none"
  /\ \E items \in StoredItems, preferSync \in BOOLEAN,
        throws \in [StorageAreaNames -> BOOLEAN] :
       chromeStorage' = storageSet(chromeStorage, items, preferSync, throws)
  /\ UNCHANGED <<coreVars, besidesChromeStorage>>

\* chrome calls the callback of the outstanding set
SetCallback ==
  /\ chromeStorage.pending # "none"
  /\ \E lastError \in BOOLEAN, throws \in [StorageAreaNames -> BOOLEAN] :
       chromeStorage' = setCallback(chromeStorage, lastError, throws)
  /\ UNCHANGED <<coreVars, besidesChromeStorage>>

\* storageGet is called while no storageSet call is outstanding
StorageGet ==
  /\ chromeStorage.pending = "none"
  /\ \E preferSync \in BOOLEAN, fails \in [StorageAreaNames -> BOOLEAN] :
       chromeStorage' =
         [chromeStorage EXCEPT
            !.got = [kind |-> "returned",
                     preferSync |-> preferSync,
                     failed |-> \E area \in StorageAreaNames : fails[area],
                     result |-> storageGet(chromeStorage, preferSync, fails)]]
  /\ UNCHANGED <<coreVars, besidesChromeStorage>>

NextStorage ==
  \/ StorageSet
  \/ SetCallback
  \/ StorageGet

SpecStorage == InitStorage /\ [][NextStorage]_vars

(***************************************************************************)
(* SpecListener: messages arrive at the background listener, and the       *)
(* promises of handleBackgroundMessage settle in any order                 *)
(***************************************************************************)
\* messages the listener receives
MaxMessages == 3

\* the messages a sender can send: the commands, and a type without a case
InboundMessages ==
  [type : {"EXPLAIN_REQUEST"}, mode : {"quick", "deep", "none"}]
    \cup [type : (CommandTypes \ {"EXPLAIN_REQUEST"}) \cup {"PING"}, mode : {"none"}]

InitListener ==
  /\ CoreIdle
  /\ DetectorIdle
  /\ CachePolicyIdle
  /\ ChromeStorageIdle
  /\ ChannelIdle
  /\ DrawerIdle
  /\ DebouncerIdle
  /\ QuickCallIdle
  /\ FramesIdle

\* the listener runs: it calls handleBackgroundMessage and returns true
ReceiveMessage ==
  /\ Len(channel) < MaxMessages
  /\ \E message \in InboundMessages :
       channel' = Append(channel,
                         [message |-> message,
                          promise |-> [state |-> "pending"],
                          responses |-> <<>>])
  /\ UNCHANGED <<coreVars, besidesChannel>>

\* the promise of message i settles and the listener's then or catch runs
HandlerSettles(i) ==
  /\ i \in DOMAIN channel
  /\ channel[i].promise.state = "pending"
  /\ LET message == channel[i].message
         inners == IF Settlements(message) = {}
                   THEN {[state |-> "none"]}
                   ELSE Settlements(message)
     IN \E inner \in inners :
          LET promise == handleBackgroundMessage(message, inner)
          IN channel' = [channel EXCEPT
                           ![i].promise = promise,
                           ![i].responses = @ \o listenerResponses(promise)]
  /\ UNCHANGED <<coreVars, besidesChannel>>

NextListener ==
  \/ ReceiveMessage
  \/ \E i \in 1..MaxMessages : HandlerSettles(i)

\* every call handleBackgroundMessage awaits settles, and the event loop
\* runs the callbacks of a settled promise
SpecListener ==
  /\ InitListener
  /\ [][NextListener]_vars
  /\ \A i \in 1..MaxMessages : WF_vars(HandlerSettles(i))

(***************************************************************************)
(* SpecDeepData: deep streams of several progress events, and the deep     *)
(* data the overlay builds from their notifications                        *)
(***************************************************************************)
\* request ids created in one run
MaxDeepIds == 2
\* deep requests sent in one run
MaxDeepRequests == 2
\* progress events one stream carries
MaxDeepProgress == 2
\* notifications on their way to the overlay at one time
MaxDeepInbox == 2

\* createRequestId()
DeepRequestId(n) == <<"r1", "r2", "r3", "r4">>[n]

\* the data of the progress events the explain server streams: a background
\* section, a cross-culture section, or both; the server may echo the id
ProgressEvents ==
  { [EmptyObject EXCEPT !["background"] = "b1"],
    [EmptyObject EXCEPT !["crossCulture"] = "c1"],
    [EmptyObject EXCEPT !["requestId"] = "server", !["background"] = "b2",
                        !["crossCulture"] = "c2"] }

\* the data of the complete event: every field, with the request's id
CompleteEvent(requestId) ==
  [requestId |-> requestId, background |-> "B", crossCulture |-> "C", sources |-> "S"]

\* how a stream ends: with a complete event, with an error event, or without
StreamEnds == {"complete", "error", "end"}

ProgressScripts ==
  UNION {[1..n -> ProgressEvents] : n \in 0..MaxDeepProgress}

InitDeepData ==
  /\ CoreIdle
  /\ DetectorIdle
  /\ CachePolicyIdle
  /\ ChromeStorageIdle
  /\ ChannelIdle
  /\ DrawerIdle
  /\ DebouncerIdle
  /\ QuickCallIdle
  /\ FramesIdle

\* handleTriggerClick, triggerQuickExplain up to its await: a new request id
\* becomes current and the deep data is dropped
DrawerQuick ==
  /\ drawer.idsCreated < MaxDeepIds
  /\ drawer' = [drawer EXCEPT
                  !.idsCreated = @ + 1,
                  !.lastRequestId = DeepRequestId(drawer.idsCreated + 1),
                  !.deepData = EmptyObject,
                  !.deepRequests = 0,
                  !.accepted = <<>>,
                  !.lastHandled = [type |-> "none"]]
  /\ UNCHANGED <<coreVars, besidesDrawer>>

\* triggerDeepExplain, and the router up to the fetch of streamDeepExplain:
\* the request reuses the current id; the stream it opens carries `script`
\* and ends with `ending`
DrawerDeep ==
  /\ drawer.lastRequestId # NoBody
  /\ Len(drawer.streams) < MaxDeepRequests
  /\ \E script \in ProgressScripts, ending \in StreamEnds :
       drawer' = [drawer EXCEPT
                    !.deepLoading = TRUE,
                    !.deepData = spread(@, onlyRequestId(drawer.lastRequestId)),
                    !.streams = Append(@, [requestId |-> drawer.lastRequestId,
                                           events |-> script,
                                           ending |-> ending,
                                           finalResult |-> EmptyObject,
                                           pc |-> "stream"]),
                    !.deepRequests = @ + 1,
                    !.accepted = <<>>,
                    !.lastHandled = [type |-> "none"]]
  /\ UNCHANGED <<coreVars, besidesDrawer>>

\* a notification sent by stream i
DeepNotification(type, payload, i) ==
  [type |-> type, payload |-> payload, stream |-> i]

\* handleSseEvent for the next event of stream i: a progress event is sent
\* as DEEP_EXPLAIN_PROGRESS, a complete event sets finalResult, an error
\* event throws and the catch of processDeepExplain sends REQUEST_FAILED
StreamEvent(i) ==
  /\ i \in DOMAIN drawer.streams
  /\ Len(drawer.inbox) < MaxDeepInbox
  /\ LET deepStream == drawer.streams[i]
     IN /\ deepStream.pc = "stream"
        /\ drawer' =
             IF deepStream.events # <<>>
             THEN [drawer EXCEPT
                     !.streams[i].events = Tail(@),
                     !.inbox = Append(@, DeepNotification("DEEP_EXPLAIN_PROGRESS",
                                  progressPayload(Head(deepStream.events), deepStream.requestId), i))]
             ELSE IF deepStream.ending = "complete" /\ deepStream.finalResult = EmptyObject
             THEN [drawer EXCEPT
                     !.streams[i].finalResult = CompleteEvent(deepStream.requestId)]
             ELSE IF deepStream.finalResult # EmptyObject
             THEN \* reader.read() reports done: DEEP_EXPLAIN_READY
                  [drawer EXCEPT
                     !.streams[i].pc = "done",
                     !.inbox = Append(@, DeepNotification("DEEP_EXPLAIN_READY",
                                                          deepStream.finalResult, i))]
             ELSE [drawer EXCEPT
                     !.streams[i].pc = "done",
                     !.inbox = Append(@, DeepNotification("REQUEST_FAILED",
                                  onlyRequestId(deepStream.requestId), i))]
  /\ UNCHANGED <<coreVars, besidesDrawer>>

\* handleMessage for the next notification
DrawerReceives ==
  /\ drawer.inbox # <<>>
  /\ LET message == Head(drawer.inbox)
         latest == message.stream = Len(drawer.streams)
     IN drawer' =
          IF message.payload["requestId"] # drawer.lastRequestId
          THEN [drawer EXCEPT !.inbox = Tail(@)]
          ELSE CASE message.type = "DEEP_EXPLAIN_READY" ->
                      [drawer EXCEPT !.inbox = Tail(@),
                                     !.deepData = message.payload,
                                     !.deepLoading = FALSE,
                                     !.lastHandled = [type |-> message.type,
                                                      payload |-> message.payload]]
                 [] message.type = "DEEP_EXPLAIN_PROGRESS" ->
                      [drawer EXCEPT !.inbox = Tail(@),
                                     !.deepData = mergeDeepProgress(@, message.payload),
                                     !.accepted = IF latest
                                                  THEN Append(@, message.payload)
                                                  ELSE @,
                                     !.lastHandled = [type |-> message.type,
                                                      payload |-> message.payload]]
                 [] OTHER ->
                      [drawer EXCEPT !.inbox = Tail(@),
                                     !.deepLoading = FALSE,
                                     !.lastHandled = [type |-> message.type,
                                                      payload |-> message.payload]]
  /\ UNCHANGED <<coreVars, besidesDrawer>>

NextDeepData ==
  \/ DrawerQuick
  \/ DrawerDeep
  \/ \E i \in 1..MaxDeepRequests : StreamEvent(i)
  \/ DrawerReceives

SpecDeepData == InitDeepData /\ [][NextDeepData]_vars

(***************************************************************************)
(* SpecDebounce: mutation notifications and the debounced scan             *)
(***************************************************************************)
\* the notifications of a behaviour and the time it covers, in milliseconds
MaxNotifications == 4
MaxTimeMs == 600

\* the time between two events
Gaps == {50, 100}

\* the due times of the pending timeouts
DueTimes == {t.due : t \in debouncer.timers}

InitDebounce ==
  /\ CoreIdle
  /\ DetectorIdle
  /\ CachePolicyIdle
  /\ ChromeStorageIdle
  /\ ChannelIdle
  /\ DrawerIdle
  /\ DebouncerIdle
  /\ QuickCallIdle
  /\ FramesIdle

\* the MutationObserver callback calls debouncedScan(); a timeout that is due
\* runs before a later notification is delivered.  A call less than
\* DebounceMs after the previous one belongs to the same burst.
Notify ==
  /\ debouncer.handles < MaxNotifications
  /\ debouncer.now + DebounceMs <= MaxTimeMs
  /\ \A due \in DueTimes : due > debouncer.now
  /\ LET called == debounced(debouncer, DebounceMs)
         bursts == debouncer.calledAt
         sameBurst == /\ bursts # <<>>
                      /\ debouncer.now - bursts[Len(bursts)] < DebounceMs
     IN debouncer' =
          [called EXCEPT !.calledAt =
             IF sameBurst THEN [bursts EXCEPT ![Len(bursts)] = debouncer.now]
             ELSE Append(bursts, debouncer.now)]
  /\ UNCHANGED <<coreVars, besidesDebouncer>>

\* a timeout runs when it is due: fn(), the scan pass
TimeoutRuns ==
  /\ \E t \in debouncer.timers :
       /\ t.due <= debouncer.now
       /\ debouncer' = [debouncer EXCEPT !.timers = @ \ {t},
                                         !.ranAt = Append(@, debouncer.now)]
  /\ UNCHANGED <<coreVars, besidesDebouncer>>

\* time passes, up to the next due timeout
TimePasses ==
  /\ \A due \in DueTimes : due > debouncer.now
  /\ \E gap \in Gaps :
       LET target == debouncer.now + gap
           reached == IF \E due \in DueTimes : due < target
                      THEN CHOOSE due \in DueTimes : \A other \in DueTimes : due <= other
                      ELSE target
       IN /\ reached <= MaxTimeMs
          /\ debouncer' = [debouncer EXCEPT !.now = reached]
  /\ UNCHANGED <<coreVars, besidesDebouncer>>

NextDebounce == Notify \/ TimeoutRuns \/ TimePasses

\* time passes and due timeouts run
SpecDebounce ==
  /\ InitDebounce
  /\ [][NextDebounce]_vars
  /\ WF_vars(TimeoutRuns)
  /\ WF_vars(TimePasses)

(***************************************************************************)
(* SpecQuick: processQuickExplain on the texts a completion may hold       *)
(***************************************************************************)
MaxQuickCalls == 2

\* a JSON object with one member
oneMember(key, valueText) ==
  <<"{", Quote>> \o key \o <<Quote, ":">> \o valueText \o <<"}">>

\* the member values: an empty string, two strings and a number
MemberValues ==
  {<<Quote, Quote>>, <<Quote, "a", Quote>>, <<Quote, " ", Quote>>, <<"1">>}

\* the texts extractOutputText returns: no text, plain lines, texts JSON.parse
\* rejects, and objects with no member or with one
RawOutputs ==
  {<<>>, <<"a">>, <<"a", Newline, "b">>, <<Newline, "a">>, <<" ">>,
   <<"{">>, <<"{", "}">>, <<" ", "{", "}">>, <<"{", " ", "}">>}
    \cup {oneMember(key, v) : key \in {LiteralKey, ContextKey, ReasonKey},
                              v \in MemberValues}

InitQuick ==
  /\ CoreIdle
  /\ DetectorIdle
  /\ CachePolicyIdle
  /\ ChromeStorageIdle
  /\ ChannelIdle
  /\ DrawerIdle
  /\ DebouncerIdle
  /\ QuickCallIdle
  /\ FramesIdle

\* processQuickExplain up to `await fetchQuickExplain(...)`, the response of
\* the provider being ok
CompletionArrives ==
  /\ quickCall.phase = "idle"
  /\ quickCall.calls < MaxQuickCalls
  /\ \E rawOutput \in RawOutputs :
       quickCall' = [quickCall EXCEPT !.phase = "fetched",
                                      !.calls = @ + 1,
                                      !.rawOutput = rawOutput,
                                      !.fetched = fetchQuickExplain(rawOutput),
                                      !.returned = None]
  /\ UNCHANGED <<coreVars, besidesQuickCall>>

\* the same, the response of the provider not being ok
CompletionFails ==
  /\ quickCall.phase = "idle"
  /\ quickCall.calls < MaxQuickCalls
  /\ quickCall' = [quickCall EXCEPT !.phase = "failed",
                                    !.calls = @ + 1,
                                    !.rawOutput = <<>>,
                                    !.fetched = [threw |-> TRUE,
                                                 message |-> RequestFailedMessage],
                                    !.returned = None]
  /\ UNCHANGED <<coreVars, besidesQuickCall>>

\* processQuickExplain after the await: writeQuickToCache and the success
\* value, or the catch and the failure value
QuickCallSettles ==
  /\ quickCall.phase \in {"fetched", "failed"}
  /\ quickCall' =
       IF quickCall.fetched.threw
       THEN [quickCall EXCEPT !.phase = "idle",
                              !.returned = [ok |-> FALSE,
                                            error |-> quickCall.fetched.message]]
       ELSE LET quickResult == [literal |-> quickCall.fetched.literal,
                                context |-> quickCall.fetched.context]
            IN [quickCall EXCEPT !.phase = "idle",
                                 !.cached = @ \cup {quickResult},
                                 !.returned = [ok |-> TRUE, cached |-> FALSE,
                                               response |-> quickResult]]
  /\ UNCHANGED <<coreVars, besidesQuickCall>>

NextQuick == CompletionArrives \/ CompletionFails \/ QuickCallSettles

SpecQuick == InitQuick /\ [][NextQuick]_vars

(***************************************************************************)
(* SpecBridge: the overlay, its detector and the relay of a child frame    *)
(***************************************************************************)
MaxObservations == 3
MaxBridge == 2
MaxFrameIds == 2

\* the subtitle lines the detectors find
FrameLines == {<<"a">>, <<"b">>}

InitBridge ==
  /\ CoreIdle
  /\ DetectorIdle
  /\ CachePolicyIdle
  /\ ChromeStorageIdle
  /\ ChannelIdle
  /\ DrawerIdle
  /\ DebouncerIdle
  /\ QuickCallIdle
  /\ FramesIdle

\* the detector of the top frame emits a text that differs from the one it
\* emitted last: its listener is handleObservation
OwnDetectorEmits ==
  /\ frames.observations < MaxObservations
  /\ \E text \in FrameLines :
       /\ text # frames.ownLast
       /\ frames' = handleObservation([frames EXCEPT !.ownLast = text], text)
  /\ UNCHANGED <<coreVars, besidesFrames>>

\* the detector of the child frame emits a text that differs from the one it
\* emitted last: startSubtitleRelay posts it to window.top
ChildDetectorEmits ==
  /\ Len(frames.bridge) < MaxBridge
  /\ \E text \in FrameLines :
       /\ text # frames.childLast
       /\ frames' = [frames EXCEPT !.childLast = text,
                                   !.bridge = Append(@, text)]
  /\ UNCHANGED <<coreVars, besidesFrames>>

\* the message listener of the overlay receives a relayed observation
BridgeDelivers ==
  /\ frames.observations < MaxObservations
  /\ frames.bridge # <<>>
  /\ frames' = handleObservation([frames EXCEPT !.bridge = Tail(@)],
                                 Head(frames.bridge))
  /\ UNCHANGED <<coreVars, besidesFrames>>

\* handleTriggerClick, triggerQuickExplain up to its await: a new request id
FrameQuick ==
  /\ frames.currentLine # <<>>
  /\ frames.idsCreated < MaxFrameIds
  /\ frames' = [frames EXCEPT !.idsCreated = @ + 1,
                              !.lastRequestId = frames.idsCreated + 1,
                              !.quickLoading = TRUE,
                              !.quickResponse = None]
  /\ UNCHANGED <<coreVars, besidesFrames>>

\* triggerQuickExplain after its await, for the request that is still current
FrameQuickResolves ==
  /\ frames.quickLoading
  /\ frames.lastRequestId # NoId
  /\ frames' = [frames EXCEPT !.quickLoading = FALSE,
                              !.quickResponse = [requestId |-> frames.lastRequestId]]
  /\ UNCHANGED <<coreVars, besidesFrames>>

NextBridge ==
  \/ OwnDetectorEmits
  \/ ChildDetectorEmits
  \/ BridgeDelivers
  \/ FrameQuick
  \/ FrameQuickResolves

SpecBridge == InitBridge /\ [][NextBridge]_vars

(***************************************************************************)
(* C15 - C20: credentials, failures and calls of the router                *)
(***************************************************************************)
\* request i is a `mode` request for which getApiKeys() gave no key
WithoutKey(i, mode) ==
  requests[i].mode = mode /\ requests[i].credential = "missing"

\* C15: a quick request that misses the cache and finds no key is answered
\* {ok: false} with the missing-key reason, without a call to the completion
\* endpoint and without a write to the cache.
C15_QuickMissingCredential ==
  \A i \in DOMAIN requests :
    WithoutKey(i, "quick")
      => /\ requests[i].pc \in {"replied", "done"}
         /\ requests[i].outcome = "failure"
         /\ requests[i].result
              = [ok |-> FALSE, error |-> [reason |-> "Missing OpenAI API key"]]
         /\ requests[i].explainCalls = 0
         /\ requests[i].cacheCalls = 0

\* a quick request was refused for its missing key while the cache holds a
\* deep result only
C15_Witness ==
  /\ \E i \in DOMAIN requests :
       /\ WithoutKey(i, "quick")
       /\ requests[i].pc = "replied"
       /\ requests[i].outcome = "failure"
  /\ records # {}

\* C16: a deep request that finds no key fails before any streaming call is
\* opened.
C16_DeepMissingCredential ==
  \A i \in DOMAIN requests :
    WithoutKey(i, "deep")
      => /\ requests[i].explainCalls = 0
         /\ requests[i].outcome = "failure"

\* request i fails in this step
Fails(i) ==
  /\ requests[i].outcome # "failure"
  /\ requests'[i].outcome = "failure"

\* the step sends a REQUEST_FAILED with the requestId and mode of request i
\* and a reason
FailureNotified(i) ==
  /\ Len(inbox') = Len(inbox) + 1
  /\ LET sent == inbox'[Len(inbox')]
     IN /\ sent.type = "REQUEST_FAILED"
        /\ sent.payload.requestId = requests[i].requestId
        /\ sent.payload.mode = requests[i].mode
        /\ "reason" \in DOMAIN sent.payload

\* C17: every failure of an explain request, quick or deep, sends a
\* REQUEST_FAILED notification with its requestId, its mode and a reason.
C17_EveryFailureNotified ==
  [][ \A i \in DOMAIN requests : Fails(i) => FailureNotified(i) ]_vars

\* C18: a deep request answered from the cache has made no network call:
\* neither the profile-variant call nor the streaming call.
C18_DeepHitWithoutNetwork ==
  \A i \in DOMAIN requests :
    (requests[i].mode = "deep" /\ requests[i].outcome = "cache-hit")
      => /\ requests[i].profileCalls = 0
         /\ requests[i].explainCalls = 0

\* C19: a request that fails has created, modified or evicted no record of
\* the cache store.
C19_FailureLeavesCache ==
  \A i \in DOMAIN requests :
    requests[i].outcome = "failure" => requests[i].cacheCalls = 0

C21_Dedup ==
  \A i \in DOMAIN detector.heard :
    /\ trim(detector.heard[i]) # <<>>
    /\ i > 1 => trim(detector.heard[i]) # trim(detector.heard[i - 1])

\* the listener has heard a text, and the latest emit, for the same text
\* again, called nobody
C21_Witness ==
  /\ detector.listeners # {}
  /\ detector.heard # <<>>
  /\ detector.lastEmit = "duplicate"
  /\ detector.lastSubtitle = detector.heard[Len(detector.heard)]

\* C22: two recognitions of one detector never run at the same time.
C22_NoOverlap == Len(detector.recognitions) <= 1

\* C23: a scan pass starts a recognition only if every tier missed and the
\* miss counter is above 3, or the host is optical-preferred, or a
\* structural candidate with a score above zero was rejected.
C23_RecognitionGated ==
  detector.lastPass.recognized
    => /\ ~detector.lastPass.hit
       /\ detector.lastPass.force

\* C24: once stop() has returned no scan pass runs, no timeout fires and no
\* listener is called.
C24_StopTearsDown ==
  [][ detector.stopped
        => /\ detector'.scanPasses = detector.scanPasses
           /\ detector'.timeoutsFired = detector.timeoutsFired
           /\ detector'.heard = detector.heard ]_vars

(***************************************************************************)
(* C25: the cache policy                                                   *)
(***************************************************************************)
\* the field of a stored value is no finite number above zero
InvalidField(raw, field) ==
  \/ raw.kind = "undefined"
  \/ raw[field].kind # "number"
  \/ raw[field].halves <= 0

\* C25: every policy getCacheSettings resolves with, and the policy it
\* keeps, has 5 <= quickTtlMinutes <= 180 and 50 <= maxEntries <= 2000, and
\* an invalid stored field gives the default of that field (30, 400).
C25_PolicyInRange ==
  /\ cachePolicy.cachedSettings.quickTtlMinutes \in Whole(5)..Whole(180)
  /\ cachePolicy.cachedSettings.maxEntries \in Whole(50)..Whole(2000)
  /\ cachePolicy.returned.kind = "settings"
       => LET resolved == cachePolicy.returned.settings
              raw == cachePolicy.returned.from
          IN /\ resolved.quickTtlMinutes \in Whole(5)..Whole(180)
             /\ resolved.maxEntries \in Whole(50)..Whole(2000)
             /\ InvalidField(raw, "quickTtlMinutes") => resolved.quickTtlMinutes = Whole(30)
             /\ InvalidField(raw, "maxEntries") => resolved.maxEntries = Whole(400)

\* a storage change delivered 180.5 minutes and NaN entries, and
\* getCacheSettings resolved with 180 minutes and 400 entries
C25_Witness ==
  /\ cachePolicy.hasLoaded
  /\ cachePolicy.returned.kind = "settings"
  /\ cachePolicy.returned.from
       = [kind |-> "object",
          quickTtlMinutes |-> [kind |-> "number", halves |-> 361],
          maxEntries |-> [kind |-> "NaN"]]
  /\ cachePolicy.returned.settings
       = [quickTtlMinutes |-> Whole(180), maxEntries |-> Whole(400)]

(***************************************************************************)
(* C26: storageSet                                                         *)
(***************************************************************************)
\* C26: whenever storageSet has resolved, the items of the call are stored
\* in the area named by the resolved value.
C26_ResolvedAreaHoldsItems ==
  chromeStorage.resolved # "none"
    => chromeStorage[chromeStorage.resolved] = chromeStorage.items

(***************************************************************************)
(* C27: one response per message                                           *)
(***************************************************************************)
\* the response the sender of message i is due once the promise settled
DueResponse(i) ==
  LET message == channel[i].message
      promise == channel[i].promise
  IN IF message.type \notin CommandTypes
     THEN [ok |-> FALSE]
     ELSE IF promise.state = "rejected"
          THEN [ok |-> FALSE, error |-> promise.reason.text]
          ELSE promise.value

\* message i has its one response
Answered(i) ==
  /\ i \in DOMAIN channel
  /\ Len(channel[i].responses) = 1

RECURSIVE ShallowMerge(_, _)
ShallowMerge(e, n) ==
  IF n = 0 THEN EmptyObject ELSE spread(ShallowMerge(e, n - 1), e[n])

\* the deep data is the merge of the progress payloads of the latest deep
\* request let in so far, and after a DEEP_EXPLAIN_READY it is that payload
\* with deepLoading cleared
Reconstructed ==
  /\ drawer.lastHandled.type = "DEEP_EXPLAIN_PROGRESS"
      => drawer.deepData = ShallowMerge(drawer.accepted, Len(drawer.accepted))
  /\ drawer.lastHandled.type = "DEEP_EXPLAIN_READY"
      => /\ drawer.deepData = drawer.lastHandled.payload
         /\ ~drawer.deepLoading

\* no notification since the id became current came from an earlier deep
\* request for the same id
FirstDeepRequest ==
  /\ drawer.deepRequests = 1

CallResolves(i) ==
  /\ requests[i].pc \in {"fetch", "stream"}
  /\ requests'[i].pc # requests[i].pc
  /\ requests'[i].outcome # "failure"

\* this step is request i passing its result to writeRecord
WritesRecord(i) ==
  /\ requests[i].pc = "put"
  /\ requests'[i].pc = "trim"

\* C29: a request whose id is no longer the current one when its network
\* call or stream resolves is discarded: it does not go on to the cache
\* write, and no step of it changes the records of the cache store.
C29_SupersededWritesNothing ==
  [][\A i \in DOMAIN requests :
       Superseded(requests[i].requestId)
         => /\ CallResolves(i) => requests'[i].pc # "put"
            /\ WritesRecord(i) => records' = records]_vars

\* this step is deep request i finding its text in the cache and sending
\* DEEP_EXPLAIN_READY
DeepCacheHit(i) ==
  /\ requests[i].mode = "deep"
  /\ requests[i].pc = "lookup"
  /\ requests'[i].outcome = "cache-hit"

\* handleMessage lets a notification in when its payload carries the id of
\* the overlay's current request
PassesIdCheck(message, currentId) == message.payload.requestId = currentId

\* C30: the DEEP_EXPLAIN_READY a deep request sends on a cache hit passes
\* the overlay's id check for that request, so that its deep loading ends.
C30_CachedReadyPassesCheck ==
  [][\A i \in DOMAIN requests :
       DeepCacheHit(i)
         => PassesIdCheck(inbox'[Len(inbox')], requests[i].requestId)]_vars

(***************************************************************************)
(* C31, C32, C34, C35: the tiers of a scan pass and the recognition        *)
(***************************************************************************)
\* the first tier, in the order of Tiers, for which the page of the last
\* pass held a text
FirstOffering ==
  LET offered == detector.lastPass.offered
  IN IF offered.structural THEN Tiers[1]
     ELSE IF offered.textTrack THEN Tiers[2]
     ELSE IF offered.ariaLive THEN Tiers[3]
     ELSE "none"

\* C31: a scan pass takes its text from the first of the structural scan,
\* the text track and the live regions that has one, and from that tier
\* only; the optical recognition is asked only by a pass in which all three
\* had none.
C31_TierOrder ==
  /\ detector.lastPass.source = FirstOffering
  /\ detector.lastPass.hit = (FirstOffering # "none")
  /\ detector.lastPass.recognized => FirstOffering = "none"

\* a pass found nothing in the structural scan and in the text track and
\* handed the text of a live region to the listener
C31_Witness ==
  /\ detector.lastPass.offered
       = [structural |-> FALSE, textTrack |-> FALSE, ariaLive |-> TRUE]
  /\ detector.lastPass.source = "ariaLive"
  /\ detector.lastEmit = "fired"
  /\ detector.heard # <<>>
  /\ detector.heard[Len(detector.heard)] = <<"A">>
  /\ ~detector.lastPass.recognized

\* C32: no scan pass starts while the recognition of an earlier pass is
\* still running.
C32_PassesSequential ==
  [][detector'.scanPasses > detector.scanPasses
       => detector.recognitions = <<>>]_vars

\* this step is a runOcr call returning with a rejection
OcrThrows ==
  /\ Len(detector'.recognitions) < Len(detector.recognitions)
  /\ detector'.lastOcr = "threw"

\* C34: when runOcr throws, no listener is called and the last emitted text
\* stays; the detector goes on as after a miss: the observer, the pending
\* debounce timeout and the miss counter are as before and the cooldown
\* timeout is started.
C34_ThrowIsMiss ==
  [][OcrThrows
       => /\ detector'.heard = detector.heard
          /\ detector'.lastSubtitle = detector.lastSubtitle
          /\ detector'.lastEmit = detector.lastEmit
          /\ detector'.listeners = detector.listeners
          /\ detector'.observer = detector.observer
          /\ detector'.debounceTimeout = detector.debounceTimeout
          /\ detector'.domMisses = detector.domMisses
          /\ detector'.scanPasses = detector.scanPasses
          /\ detector'.cooldownTimeouts = detector.cooldownTimeouts + 1]_vars

\* the only recognition has thrown: the listener has heard nothing and the
\* cooldown timeout is pending
C34_Witness ==
  /\ detector.lastOcr = "threw"
  /\ detector.listeners # {}
  /\ detector.recognitionsStarted = 1
  /\ detector.recognitions = <<>>
  /\ detector.heard = <<>>
  /\ detector.ocrCooldown
  /\ detector.cooldownTimeouts = 1

\* C35 (second half): the cooldown flag is not cleared while a recognition
\* is running.
C35_FlagHeldWhileRecognizing ==
  [][(detector.ocrCooldown /\ ~detector'.ocrCooldown)
       => detector.recognitions = <<>>]_vars

(***************************************************************************)
(* C33: the debounced scan                                                 *)
(***************************************************************************)
\* a timeout is pending
ScanPending == debouncer.timers # {}

\* C33: each burst of notifications (each less than 150 ms after the
\* previous one) is followed by exactly one scan pass, 150 ms after its last
\* notification: at any time every burst but a pending last one has had its
\* pass, and every burst eventually has.
C33_OnePassPerBurst ==
  /\ [](/\ Len(debouncer.ranAt) + (IF ScanPending THEN 1 ELSE 0)
             = Len(debouncer.calledAt)
        /\ \A i \in DOMAIN debouncer.ranAt :
             debouncer.ranAt[i] = debouncer.calledAt[i] + DebounceMs)
  /\ \A n \in 1..MaxNotifications :
       (Len(debouncer.calledAt) >= n) ~> (Len(debouncer.ranAt) >= n)

\* a burst of three notifications has had one pass, and a second burst of
\* one notification its own
C33_Witness ==
  /\ debouncer.handles = 4
  /\ debouncer.calledAt = <<100, 400>>
  /\ debouncer.ranAt = <<250, 550>>

(***************************************************************************)
(* C36: a completion with two blank fields                                 *)
(***************************************************************************)
\* the text parses as JSON and neither literal nor context is a string that
\* is not empty
BlankCompletion(rawOutput) ==
  /\ JsonParse(rawOutput).ok
  /\ stringMember(JsonParse(rawOutput), LiteralKey) = <<>>
  /\ stringMember(JsonParse(rawOutput), ContextKey) = <<>>

\* C36: a quick request whose completion parses as JSON with literal and
\* context both empty or absent returns the failure with the empty-result
\* message and writes nothing to the cache.
C36_BlankIsEmptyResult ==
  [][(/\ quickCall.phase = "fetched"
      /\ quickCall'.phase = "idle"
      /\ BlankCompletion(quickCall.rawOutput))
       => /\ quickCall'.returned = [ok |-> FALSE, error |-> EmptyResultMessage]
          /\ quickCall'.cached = quickCall.cached]_vars

(***************************************************************************)
(* C37: keys of distinct slots                                             *)
(***************************************************************************)
\* profileId ?? 'default'
ProfileOrDefault(profileId) ==
  IF profileId = Undefined THEN DefaultProfileKey ELSE profileId

\* C37: two calls of computeCacheKey return the same key only if the texts
\* are equal after trimming and lowering and the profile ids are equal after
\* replacing an absent one by 'default'.
C37_NoCollision ==
  (keyPc = "done" /\ keyResult1 = keyResult2) =>
    /\ toLowerCase(trim(keyText1)) = toLowerCase(trim(keyText2))
    /\ ProfileOrDefault(keyProfile1) = ProfileOrDefault(keyProfile2)

(***************************************************************************)
(* C38: an observation of the displayed line                               *)
(***************************************************************************)
\* this step is handleObservation with the text the overlay displays, while
\* a request for it is current
ObservesDisplayedLine ==
  /\ frames'.observations = frames.observations + 1
  /\ frames'.currentLine = frames.currentLine
  /\ frames.lastRequestId # NoId

\* C38: an observation whose text is the displayed line leaves the current
\* request id, the quick result and the loading flags as they are.
C38_SameTextKeepsRequest ==
  [][ObservesDisplayedLine
       => /\ frames'.lastRequestId = frames.lastRequestId
          /\ frames'.quickLoading = frames.quickLoading
          /\ frames'.deepLoading = frames.deepLoading
          /\ frames'.quickResponse = frames.quickResponse]_vars

(***************************************************************************)
(* C39: the policy after the initial load                                  *)
(***************************************************************************)
\* C39: once the initial load has resolved and every storage change has been
\* handled, the policy getCacheSettings returns is the normalized value of
\* what is stored.
C39_NeverStale ==
  (cachePolicy.hasLoaded /\ cachePolicy.loadingPromise.kind = "null")
    => cachePolicy.cachedSettings = normalizeSettings(cachePolicy.stored)

(***************************************************************************)
(* C40: storageGet after storageSet                                        *)
(***************************************************************************)
\* C40: when a storageSet call has resolved after writing its items to at
\* least one area, a storageGet call made next with the same preferSync, and
\* whose gets all succeed, returns the items.
C40_ReadYourWrite ==
  ( /\ chromeStorage.resolved # "none"
    /\ chromeStorage.written # {}
    /\ chromeStorage.got.kind = "returned"
    /\ chromeStorage.got.preferSync = chromeStorage.preferSync
    /\ ~chromeStorage.got.failed )
    => chromeStorage.got.result.data = chromeStorage.items

(***************************************************************************)
(* C5 - C9: the cache store                                                *)
(***************************************************************************)
QuickOf(recs, key) ==
  IF readRecord(recs, key) = None THEN None ELSE readRecord(recs, key).quick

DeepOf(recs, key) ==
  IF readRecord(recs, key) = None THEN None ELSE readRecord(recs, key).deep

IsPutStep == writers' = writers + 1

IsTrimStep == writers' = writers - 1

\* C5: a record holds both payloads of its key: the put of writeDeep leaves
\* the quick payload stored under the key as it was, and the put of
\* writeQuick leaves the deep payload as it was.
C5_SharedRecord ==
  [][ IsPutStep =>
        /\ lastCall'.op = "putDeep" =>
             QuickOf(records', lastCall'.key) = QuickOf(records, lastCall'.key)
        /\ lastCall'.op = "putQuick" =>
             DeepOf(records', lastCall'.key) = DeepOf(records, lastCall'.key) ]_vars

\* C6: whenever no cache write is between its put and its trim, the store
\* holds at most maxEntries records.
C6_EvictionBound ==
  writers = 0 => Cardinality(records) <= settings.maxEntries

\* every write has completed, the last trim evicted, and the store is full
C6_Witness ==
  /\ writers = 0
  /\ lastCall.op = "trim"
  /\ lastCall.evicted /= {}
  /\ Cardinality(records) = settings.maxEntries

\* C7: a trim over budget leaves exactly maxEntries records and never deletes
\* a record while one with a smaller updatedAt survives; a put makes the
\* written key the most recently updated one.
C7_EvictionOrder ==
  [][ /\ IsTrimStep =>
           /\ records' \subseteq records
           /\ Cardinality(records) > settings.maxEntries =>
                Cardinality(records') = settings.maxEntries
           /\ Cardinality(records) <= settings.maxEntries => records' = records
           /\ \A gone \in records \ records', kept \in records' :
                gone.updatedAt <= kept.updatedAt
      /\ IsPutStep =>
           \A r \in records' : r.updatedAt <= readRecord(records', lastCall'.key).updatedAt
    ]_vars

\* a trim has just evicted a record that is older than a retained one and
\* whose key sorts after it
C7_Witness ==
  /\ lastCall.op = "trim"
  /\ \E gone \in lastCall.evicted, kept \in records :
       gone.updatedAt < kept.updatedAt /\ KeyLess(kept.key, gone.key)

\* C8: readQuick returns the stored quick payload exactly when a record with
\* the key holds a quick payload whose expiresAt is later than the time of
\* the read; a payload stored with expiresAt = (write time) - 1 is a miss, one
\* stored with expiresAt = (write time) + 60000 and read at once is a hit.
C8_TtlBoundary ==
  [][ lastCall'.op = "readQuick" =>
        LET live == {r \in records : /\ r.key = lastCall'.key
                                     /\ r.quick /= None
                                     /\ clock < r.quick.expiresAt}
            held == {r \in records : r.key = lastCall'.key /\ r.quick /= None}
        IN /\ live = {} => lastCall'.result = None
           /\ \A r \in live : lastCall'.result = r.quick
           /\ \A r \in held :
                /\ r.quick.expiresAt = r.updatedAt - 1 => lastCall'.result = None
                /\ (r.quick.expiresAt = r.updatedAt + MsPerMinute /\ clock = r.updatedAt)
                     => lastCall'.result = r.quick ]_vars

\* a read missed on a payload that expires at the very instant of the read
C8_Witness ==
  /\ lastCall.op = "readQuick"
  /\ lastCall.result = None
  /\ \E r \in records :
       r.key = lastCall.key /\ r.quick /= None /\ r.quick.expiresAt = clock

\* C9: the quick payload stored by writeQuick at time t under policy
\* quickTtlMinutes = m expires at t + m*60000 at the latest, and no later than
\* the expiresAt the payload asked for.
C9_TtlClamp ==
  [][ (IsPutStep /\ lastCall'.op = "putQuick") =>
        LET stored == QuickOf(records', lastCall'.key).expiresAt
        IN /\ stored <= clock + settings.quickTtlMinutes * MsPerMinute
           /\ lastCall'.response.expiresAt /= 0 => stored <= lastCall'.response.expiresAt
    ]_vars

\* a payload that asked for more than the policy allows has just been stored
\* with the policy's expiry
C9_Witness ==
  /\ lastCall.op = "putQuick"
  /\ lastCall.response.expiresAt > clock + settings.quickTtlMinutes * MsPerMinute
  /\ QuickOf(records, lastCall.key).expiresAt = clock + settings.quickTtlMinutes * MsPerMinute

(***************************************************************************)
(* C10                                                                     *)
(***************************************************************************)
\* the characters a text keeps between its first and last non-blank character
FirstInk(t) ==
  IF \E i \in 1..Len(t) : t[i] /= " "
  THEN CHOOSE i \in 1..Len(t) : t[i] /= " " /\ \A j \in 1..(i - 1) : t[j] = " "
  ELSE 1

LastInk(t) ==
  IF \E i \in 1..Len(t) : t[i] /= " "
  THEN CHOOSE i \in 1..Len(t) : t[i] /= " " /\ \A j \in (i + 1)..Len(t) : t[j] = " "
  ELSE 0

SameLetter(c, d) == c = d \/ {c, d} = {"a", "A"}

\* t and u differ at most in letter case and in leading/trailing blanks
SameUpToCaseAndMargin(t, u) ==
  /\ LastInk(t) - FirstInk(t) = LastInk(u) - FirstInk(u)
  /\ \A i \in 0..(LastInk(t) - FirstInk(t)) :
       SameLetter(t[FirstInk(t) + i], u[FirstInk(u) + i])

\* C10 (as stated): the key ignores case and outer whitespace of the text,
\* and for one text any two distinct profileIds give different keys.
C10_KeyDeterminism_AsStated ==
  keyPc = "done" =>
    /\ (keyProfile1 = keyProfile2 /\ SameUpToCaseAndMargin(keyText1, keyText2))
         => keyResult1 = keyResult2
    /\ (keyText1 = keyText2 /\ keyProfile1 /= keyProfile2)
         => keyResult1 /= keyResult2

\* C10 (amended): the key ignores case and outer whitespace of the text, and
\* for one text two profileIds give different keys unless one is absent and
\* the other is the string 'default'.
C10_KeyDeterminism ==
  keyPc = "done" =>
    /\ (keyProfile1 = keyProfile2 /\ SameUpToCaseAndMargin(keyText1, keyText2))
         => keyResult1 = keyResult2
    /\ ( /\ keyText1 = keyText2
         /\ keyProfile1 /= keyProfile2
         /\ {keyProfile1, keyProfile2} /= {Undefined, DefaultProfileKey} )
         => keyResult1 /= keyResult2

\* two texts that differ in case and margin were keyed under one profile
C10_Witness ==
  /\ keyPc = "done"
  /\ keyText1 = <<" ", "A">>
  /\ keyText2 = <<"a">>
  /\ keyProfile1 = <<"p">>
  /\ keyProfile2 = <<"p">>
  /\ keyResult1 = <<"p", ":", ":", "a">>

====
